---------------------------- MODULE Spec2Model ----------------------------
(***************************************************************************)
(* Monitored-entity registry of the ChainSage backend: the in-memory map   *)
(* monitoredWallets of routes/walletMonitoring.js, its two persistence     *)
(* tiers (0G durable store, local backup file), the HTTP handlers that     *)
(* mutate it, the analysis handler, and the scheduled wallet analysis of   *)
(* services/transactionMonitor.js.                                         *)
(*                                                                         *)
(* Every handler is an async function: it runs atomically up to its next   *)
(* await and other handlers may run in between.  One action of the model   *)
(* is one such run-to-await segment of one handler.                        *)
(***************************************************************************)
EXTENDS Integers, Sequences, FiniteSets, TLC

(***************************************************************************)
(* Bounds of the model.                                                    *)
(***************************************************************************)
\* number of handler invocations that may be in flight at once
MaxReqs == 2
\* number of monitor, unmonitor and analyze requests and of analysis cycles
\* begun in one behaviour (bounds the event log and the broadcast log)
MaxOps == 2
\* number of times startMonitoring registers its cron schedules
MaxSchedules == 2
\* largest limit asked of getAggregatedWalletActivity, beside its default
MaxLimit == 3
\* sockets that connect to the WebSocket server
MaxClients == 3
\* calls of broadcastToClients on the set of several subscribers
MaxBroadcasts == 2
MaxRuns == 2
MaxBlock == 3

VARIABLES
  monitoredWallets,  \* the live registry: a JS Map, kept in insertion order
  backupFile,        \* data/monitored-wallets-backup.json: None or the array
  ogWallets,         \* the last snapshot storeMonitoredWallets acknowledged
  ogEvents,          \* the wallet events storeWalletEvent acknowledged, in order
  broadcasts,        \* the messages handed to broadcastToClients, in order,
                     \* each with whether the subscriber was sent it
  req,               \* the handler invocations in flight, by slot
  ogOk,              \* environment: the durable-store calls return (else throw)
  fsOk,              \* environment: the backup file can be read and written
  started,           \* registry mutations, analyses and cycles begun so far
  isMonitoring,      \* transactionMonitor.isMonitoring
  schedules,         \* cron schedules of analyzeMonitoredWallets registered
  tmWallets,         \* transactionMonitor.monitoredWallets: a JS Set, in order
  cycle,             \* the analyzeMonitoredWallets invocation in flight
  clientOpen,        \* environment: the socket of the subscriber is open
  indexer,           \* environment: what the chain indexer answers, by source
  fallback,          \* generateFallbackAnalysis on its own: input and verdict
  silent,            \* environment: the kinds of request the indexer leaves
                     \* unanswered
  calls,             \* the fetcher invocations of blockchainDataService, by kind
  agg,               \* the getAggregatedWalletActivity invocation
  feed,              \* the activity-feed request
  clients,           \* websocket.js, clients: a JS Set of sockets, in order
  bcast,             \* the calls of broadcastToClients on that set
  streams,           \* the calls of streamUnusualActivity made, by address
  bal,               \* the balance requests in flight, by slot
  lastProcessedBlock,\* transactionMonitor.lastProcessedBlock
  blockRuns,         \* the processNewBlocks invocations in flight
  head               \* environment: the block number of the chain, None
                     \* while the network lookup fails

handlerVars == <<monitoredWallets, backupFile, ogWallets, ogEvents, req, ogOk, fsOk>>
monitorVars == <<isMonitoring, schedules, tmWallets, cycle>>

fetchVars == <<silent, calls, agg>>

wsVars == <<clients, bcast>>

blockVars == <<lastProcessedBlock, blockRuns, head>>

lateVars == <<bal, blockVars>>

quietVars == <<clientOpen, indexer, fallback, fetchVars, feed, wsVars, lateVars>>

sideVars == <<quietVars, streams>>

vars == <<monitoredWallets, backupFile, ogWallets, ogEvents, broadcasts, req,
          ogOk, fsOk, started, isMonitoring, schedules, tmWallets, cycle,
          clientOpen, indexer, fallback, silent, calls, agg, feed, clients,
          bcast, streams, bal, lastProcessedBlock, blockRuns, head>>

ReqIds == 1..MaxReqs

(***************************************************************************)
(* Values.  An optional value (null / a missing file) is a sequence of     *)
(* length at most one.                                                     *)
(***************************************************************************)
None == <<>>
Some(x) == <<x>>

(***************************************************************************)
(* Address strings are sequences of characters, abbreviated to the         *)
(* characters that distinguish them.  "a".."f" and "A".."F" are hex        *)
(* digits, "g" is not.                                                     *)
(***************************************************************************)
LowerHex == {"a", "b"}
UpperHex == {"A", "B"}

\* the request parameters tried: one address in both letter cases, a second
\* address, and a string that is no address
Inputs == { <<"a">>, <<"A">>, <<"b">>, <<"g">> }

\* String.prototype.toLowerCase on one character
LowerChar(c) ==
  CASE c = "A" -> "a"
    [] c = "B" -> "b"
    [] OTHER -> c

toLowerCase(s) == [i \in 1..Len(s) |-> LowerChar(s[i])]

\* a handler that validates nothing
isAddressAny(s) == TRUE

\* ethers.isAddress: hex digits only (the inputs tried are all of one case,
\* for which ethers checks no checksum)
isAddress(s) ==
  /\ Len(s) > 0
  /\ \A i \in 1..Len(s) : s[i] \in LowerHex \cup UpperHex

(***************************************************************************)
(* The JS Map monitoredWallets as a sequence of [key, value] entries in    *)
(* insertion order.                                                        *)
(***************************************************************************)
MapKeys(m) == {m[i].key : i \in 1..Len(m)}
MapHas(m, k) == k \in MapKeys(m)
MapGet(m, k) == m[CHOOSE i \in 1..Len(m) : m[i].key = k].value
MapValues(m) == [i \in 1..Len(m) |-> m[i].value]

\* Map.prototype.set: replaces the value of an existing key in place,
\* appends a new key
MapSet(m, k, v) ==
  IF MapHas(m, k)
  THEN [i \in 1..Len(m) |-> IF m[i].key = k THEN [key |-> k, value |-> v] ELSE m[i]]
  ELSE Append(m, [key |-> k, value |-> v])

\* Map.prototype.delete
MapDelete(m, k) == SelectSeq(m, LAMBDA e : e.key # k)

\* walletsArray.forEach(wallet => monitoredWallets.set(wallet.address.toLowerCase(), wallet))
RECURSIVE SetAll(_, _)
SetAll(m, arr) ==
  IF arr = <<>> THEN m
  ELSE SetAll(MapSet(m, toLowerCase(Head(arr).address), Head(arr)), Tail(arr))

(***************************************************************************)
(* The Number values of a confidence: IEEE 754 doubles, each given exactly *)
(* as the pair <<h, l>> that stands for h * 2^28 + l in units of 2^-56.    *)
(***************************************************************************)
Limb == 268435456

\* the doubles the literals 0.1, 0.6, 0.7, 0.8 and 0.9 denote
Double01 == <<26843545, 161061274>>
Double06 == <<161061273, 161061272>>
Double07 == <<187904819, 53687088>>
Double08 == <<214748364, 214748368>>
Double09 == <<241591910, 107374184>>

\* x + y of two doubles whose sum lies in [1/2, 1), where a double is a
\* multiple of 2^-53 (8 units): the exact sum, rounded to the nearest
\* double, a tie going to the even one
DoubleAdd(x, y) ==
  LET l == x[2] + y[2]
      h == x[1] + y[1] + (l \div Limb)
      lo == l % Limb
      r == lo % 8
      down == lo - r
      up == r > 4 \/ (r = 4 /\ (down \div 8) % 2 = 1)
      rounded == IF up THEN down + 8 ELSE down
  IN <<h + (rounded \div Limb), rounded % Limb>>

DoubleLess(x, y) == x[1] < y[1] \/ (x[1] = y[1] /\ x[2] < y[2])

\* Math.min
DoubleMin(x, y) == IF DoubleLess(y, x) THEN y ELSE x

(***************************************************************************)
(* Risk fields of a monitored item.                                        *)
(***************************************************************************)
getRiskScore(riskLevel) ==
  CASE riskLevel = "critical" -> 90
    [] riskLevel = "high" -> 75
    [] riskLevel = "medium" -> 50
    [] riskLevel = "low" -> 25
    [] OTHER -> 25

\* the JSON verdicts the AI classifier is taken to answer with (the keys the
\* code reads; a verdict of the classifier carries no fallbackAnalysis key).
\* The parsed object is returned as it is: its riskLevel is whatever word
\* the classifier wrote, here also one outside low..critical.
AIVerdicts ==
  { [isUnusual |-> FALSE, riskLevel |-> "low", confidence |-> Double09,
     anomalies |-> <<>>, fallbackAnalysis |-> FALSE],
    [isUnusual |-> TRUE, riskLevel |-> "high", confidence |-> Double09,
     anomalies |-> <<"large_amount_spike">>, fallbackAnalysis |-> FALSE],
    [isUnusual |-> FALSE, riskLevel |-> "severe", confidence |-> Double09,
     anomalies |-> <<>>, fallbackAnalysis |-> FALSE] }

\* geminiService.analyzeWalletActivity: the parsed verdict, or None when the
\* service failed or its text was no JSON (the call throws)
AIOutcomes == {None} \cup {Some(v) : v \in AIVerdicts}

\* a handler filing the item under the address as it was given
MonitorKeyAsGiven(address) == address

\* the key under which the monitor handler files the item (line 126)
MonitorKey(address) == toLowerCase(address)

\* monitoredItem of the monitor handler; riskAnalysis is None when the
\* classifier call threw.  The request body is left at its defaults and the
\* Date.now() stamps addedAt / lastChecked are not modelled.
MakeItem(address, riskAnalysis) ==
  [ address |-> toLowerCase(address),
    type |-> "wallet",
    threshold |-> 1000,
    chainId |-> "1",
    status |-> "monitoring_active",
    hasAlerts |-> FALSE,
    alertCount |-> 0,
    riskAnalysis |-> riskAnalysis,
    riskLevel |-> IF riskAnalysis # None THEN riskAnalysis[1].riskLevel ELSE "low",
    riskScore |-> IF riskAnalysis # None
                  THEN getRiskScore(riskAnalysis[1].riskLevel) ELSE 25 ]

(***************************************************************************)
(* generateFallbackAnalysis.  walletData is given by the numbers the        *)
(* function reads: dailyTxCount, dailyVolume (the wei amount, counted in    *)
(* units of 1e17 wei), failedTxCount (recentTransactions with isError),     *)
(* tokenTransfers (recentTokenTransfers.length) and totalTransactions.      *)
(***************************************************************************)
\* 1e18 wei per ETH, in units of 1e17 wei
WeiPerEth == 10

Min(x, y) == IF x < y THEN x ELSE y

\* a frequency check that is left out
FrequencyRuleOff(d) == [riskLevel |-> "low", isUnusual |-> FALSE, anomalies |-> <<>>]

\* lines 19-31: the verdict starts low, not unusual, without anomalies; the
\* transaction frequency is looked at first
FrequencyRule(d) ==
  IF d.dailyTxCount > 100
  THEN [riskLevel |-> "high", isUnusual |-> TRUE,
        anomalies |-> <<"high_frequency_transactions">>]
  ELSE IF d.dailyTxCount > 50
  THEN [riskLevel |-> "medium", isUnusual |-> FALSE,
        anomalies |-> <<"moderate_frequency_transactions">>]
  ELSE [riskLevel |-> "low", isUnusual |-> FALSE, anomalies |-> <<>>]

\* a volume check that is left out
VolumeRuleOff(v, d) == v

\* a volume check whose lower tier assigns medium whatever the level was
VolumeRuleAssigns(v, d) ==
  IF d.dailyVolume > 100 * WeiPerEth
  THEN [riskLevel |-> "high", isUnusual |-> TRUE,
        anomalies |-> Append(v.anomalies, "large_volume_spike")]
  ELSE IF d.dailyVolume > 10 * WeiPerEth
  THEN [v EXCEPT !.riskLevel = "medium",
                 !.anomalies = Append(v.anomalies, "elevated_volume")]
  ELSE v

\* lines 33-42: dailyVolumeEth > 100, else > 10
VolumeRule(v, d) ==
  IF d.dailyVolume > 100 * WeiPerEth
  THEN [riskLevel |-> "high", isUnusual |-> TRUE,
        anomalies |-> Append(v.anomalies, "large_volume_spike")]
  ELSE IF d.dailyVolume > 10 * WeiPerEth
  THEN [v EXCEPT !.riskLevel = IF v.riskLevel = "low" THEN "medium" ELSE v.riskLevel,
                 !.anomalies = Append(v.anomalies, "elevated_volume")]
  ELSE v

\* a failure check that fires at 30% already
FailureRuleAtThreshold(v, d) ==
  IF 10 * d.failedTxCount >= 3 * d.dailyTxCount
  THEN [v EXCEPT !.riskLevel = IF v.riskLevel = "low" THEN "medium" ELSE v.riskLevel,
                 !.anomalies = Append(v.anomalies, "high_failure_rate")]
  ELSE v

\* a failure check that assigns medium whatever the level was
FailureRuleAssigns(v, d) ==
  IF 10 * d.failedTxCount > 3 * d.dailyTxCount
  THEN [v EXCEPT !.riskLevel = "medium",
                 !.anomalies = Append(v.anomalies, "high_failure_rate")]
  ELSE v

\* lines 44-49: failedTxCount > dailyTxCount * 0.3
FailureRule(v, d) ==
  IF 10 * d.failedTxCount > 3 * d.dailyTxCount
  THEN [v EXCEPT !.riskLevel = IF v.riskLevel = "low" THEN "medium" ELSE v.riskLevel,
                 !.anomalies = Append(v.anomalies, "high_failure_rate")]
  ELSE v

\* a token check that marks the activity unusual
TokenRuleUnusual(v, d) ==
  IF d.tokenTransfers > 20
  THEN [v EXCEPT !.riskLevel = IF v.riskLevel = "low" THEN "medium" ELSE v.riskLevel,
                 !.isUnusual = TRUE,
                 !.anomalies = Append(v.anomalies, "high_token_activity")]
  ELSE v

\* lines 51-55: recentTokenTransfers.length > 20
TokenRule(v, d) ==
  IF d.tokenTransfers > 20
  THEN [v EXCEPT !.riskLevel = IF v.riskLevel = "low" THEN "medium" ELSE v.riskLevel,
                 !.anomalies = Append(v.anomalies, "high_token_activity")]
  ELSE v

\* lines 57-60
HighIsUnusual(v) ==
  IF v.riskLevel = "high" THEN [v EXCEPT !.isUnusual = TRUE] ELSE v

\* lines 62-66, 71: let confidence = 0.6, three times confidence += 0.1
\* under its condition, Math.min(confidence, 0.9)
FallbackConfidence(d) ==
  LET c0 == Double06
      c1 == IF d.totalTransactions > 100 THEN DoubleAdd(c0, Double01) ELSE c0
      c2 == IF d.dailyTxCount > 0 THEN DoubleAdd(c1, Double01) ELSE c1
      c3 == IF d.tokenTransfers > 0 THEN DoubleAdd(c2, Double01) ELSE c2
  IN DoubleMin(c3, Double09)

generateFallbackAnalysis(walletData) ==
  LET d == walletData
      v == HighIsUnusual(TokenRule(FailureRule(VolumeRule(FrequencyRule(d), d), d), d))
  IN [isUnusual |-> v.isUnusual, riskLevel |-> v.riskLevel,
      confidence |-> FallbackConfidence(d),
      anomalies |-> v.anomalies, fallbackAnalysis |-> TRUE]

(***************************************************************************)
(* The chain indexer as the analyze handler sees it.  A source answers     *)
(* with records or throws (None).  The transactions answered are given by  *)
(* the numbers the handler takes from them: n records (at most the 100     *)
(* asked for), recent of them in the last 24 hours, failed of the first 20 *)
(* with isError, volume the summed value of the recent ones in units of    *)
(* 1e17 wei; the token transfers by n (at most 50) and recent.             *)
(***************************************************************************)
NoTxs == [n |-> 0, recent |-> 0, failed |-> 0, volume |-> 0]
NoTokens == [n |-> 0, recent |-> 0]

\* every request to the indexer fails
IndexerDown == [txs |-> None, tokens |-> None, balance |-> None]
\* the address has no activity
IndexerEmpty == [txs |-> Some(NoTxs), tokens |-> Some(NoTokens), balance |-> Some(0)]
\* 25 token transfers in the last 24 hours and no transaction
IndexerTokens ==
  [txs |-> Some(NoTxs), tokens |-> Some([n |-> 50, recent |-> 25]),
   balance |-> Some(20)]

\* 100 transactions in the last 24 hours that moved 150 ETH; the requests
\* for the token transfers and for the balance fail
IndexerPartial ==
  [txs |-> Some([n |-> 100, recent |-> 100, failed |-> 0, volume |-> 1500]),
   tokens |-> None, balance |-> None]

IndexerStates == {IndexerDown, IndexerEmpty, IndexerTokens, IndexerPartial}

\* blockchainDataService.getWalletTransactions: the formatted records, [] when
\* the request failed
getWalletTransactions(ix) == IF ix.txs = None THEN NoTxs ELSE ix.txs[1]

\* blockchainDataService.getTokenTransfers: likewise
getTokenTransfers(ix) == IF ix.tokens = None THEN NoTokens ELSE ix.tokens[1]

\* blockchainDataService.getWalletBalance: the balance object, null when the
\* request failed
getWalletBalance(ix) == ix.balance

\* the Number values a quotient of two counts can be: the quotient itself,
\* NaN, Infinity
NaN == [number |-> "NaN"]
Infinity == [number |-> "Infinity"]
Quotient(x, y) == [number |-> "finite", num |-> x, den |-> y]

\* x / y on Numbers that are not negative: 0 / 0 is NaN and x / 0 is
\* Infinity, nothing throws
Divide(x, y) ==
  IF y # 0 THEN Quotient(x, y) ELSE IF x = 0 THEN NaN ELSE Infinity

\* lines 226-227: dailyTxCount > 0 ? dailyVolume / recentTransactions.length : 0
avgAmount(transactions, tokenTransfers) ==
  IF transactions.recent + tokenTransfers.recent > 0
  THEN Divide(transactions.volume, transactions.recent)
  ELSE Quotient(0, 1)

\* lines 210-259: realWalletData, by the numbers generateFallbackAnalysis
\* reads and the average amount; recentTransactions is
\* transactions.slice(0, 20) and recentTokenTransfers is
\* tokenTransfers.slice(0, 10)
RealWalletData(transactions, tokenTransfers) ==
  [dailyTxCount |-> transactions.recent + tokenTransfers.recent,
   dailyVolume |-> transactions.volume,
   avgAmount |-> avgAmount(transactions, tokenTransfers),
   failedTxCount |-> transactions.failed,
   tokenTransfers |-> Min(tokenTransfers.n, 10),
   totalTransactions |-> transactions.n]

\* lines 325-330
dataAvailability(transactions, tokenTransfers, balance, analysis) ==
  [transactionsAvailable |-> transactions.n > 0,
   tokenTransfersAvailable |-> tokenTransfers.n > 0,
   balanceAvailable |-> balance # None,
   aiAnalysisUsed |-> ~analysis.fallbackAnalysis]

(***************************************************************************)
(* blockchainDataService: the fetchers, one request to the indexer each,   *)
(* and getAggregatedWalletActivity.  A record is given by its type and its *)
(* timestamp.                                                              *)
(***************************************************************************)
\* the kinds getAggregatedWalletActivity gathers, in the order it lists them
WalletKinds == <<"transaction", "token_transfer", "nft_transfer", "internal_transaction">>

\* the fetchers: getWalletTransactions, getTokenTransfers, getNFTTransfers,
\* getInternalTransactions, getTokenContractActivity
Kinds ==
  {"transaction", "token_transfer", "nft_transfer", "internal_transaction",
   "token_contract"}

\* what fetch and response.json() come to: the request is refused (fetch
\* rejects), or the body is the JSON of status, message and result; result
\* is an array of records or something else (a text, an object)
Refused == [tag |-> "refused", status |-> "", message |-> "", isArray |-> FALSE,
            items |-> <<>>]
Json(status, message, isArray, items) ==
  [tag |-> "json", status |-> status, message |-> message, isArray |-> isArray,
   items |-> items]

\* the timeStamp fields (seconds) of the records the indexer holds, by kind
RawOf(kind) ==
  CASE kind = "transaction" -> <<7, 4>>
    [] kind = "token_transfer" -> <<6, 4>>
    [] kind = "nft_transfer" -> <<9>>
    [] kind = "internal_transaction" -> <<8, 2, 1>>
    [] kind = "token_contract" -> <<5, 3>>

\* the answers of the indexer to a request of the kind: refused, an error
\* status (rate limit), no record found, a result that is no array, records
AnswersOf(kind) ==
  { Refused,
    Json("0", "NOTOK", FALSE, <<>>),
    Json("0", "No transactions found", TRUE, <<>>),
    Json("1", "OK", FALSE, <<>>),
    Json("1", "OK", TRUE, RawOf(kind)) }

\* makeEtherscanRequest, lines 1191-1196: fetch or response.json() throws, or
\* the status is 0 with a message other than 'No transactions found'
Throws(answer) ==
  \/ answer.tag = "refused"
  \/ answer.status = "0" /\ answer.message # "No transactions found"

\* the type field formatTransactions, formatTokenTransfers, formatNFTTransfers
\* and formatInternalTransactions leave in a record; the last, which lists
\* the key twice, leaves tx.type of the indexer (call)
TypeOf(kind) ==
  CASE kind = "transaction" -> "transaction"
    [] kind = "token_transfer" -> "token_transfer"
    [] kind = "nft_transfer" -> "nft_transfer"
    [] kind = "internal_transaction" -> "call"
    [] kind = "token_contract" -> "token_transfer"

\* format...(records): timestamp is parseInt(timeStamp) * 1000
Format(kind, items) ==
  [i \in 1..Len(items) |-> [type |-> TypeOf(kind), timestamp |-> items[i] * 1000]]

\* how a fetcher invocation ends: it returns records, or it raises
Returned(records) == [raised |-> FALSE, records |-> records]
Raised == [raised |-> TRUE, records |-> <<>>]

\* a fetcher that hands the error on to its caller
FetcherRethrows(thrown, records) == IF thrown THEN Raised ELSE Returned(records)

\* the try / catch of every fetcher: return this.format...(result || []),
\* and return [] from the catch
Fetcher(thrown, records) == IF thrown THEN Returned(<<>>) ELSE Returned(records)

\* the fetcher once makeEtherscanRequest has returned data: a result that is
\* no array makes .map throw inside the try
FetcherOn(kind, data) ==
  IF data.isArray THEN Fetcher(FALSE, Format(kind, data.items))
  ELSE Fetcher(TRUE, <<>>)

\* the place of x in a sequence sorted newest first, behind the records that
\* are newer and before those of its own timestamp and older
RECURSIVE InsertDesc(_, _)
InsertDesc(x, sorted) ==
  IF sorted = <<>> THEN <<x>>
  ELSE IF Head(sorted).timestamp <= x.timestamp THEN <<x>> \o sorted
  ELSE <<Head(sorted)>> \o InsertDesc(x, Tail(sorted))

\* arr.sort((a, b) => b.timestamp - a.timestamp): newest first, records of
\* one timestamp in the order they had
RECURSIVE SortDesc(_)
SortDesc(arr) ==
  IF arr = <<>> THEN <<>> ELSE InsertDesc(Head(arr), SortDesc(Tail(arr)))

\* arr.slice(0, n) for n >= 0
Slice(arr, n) == SubSeq(arr, 1, Min(n, Len(arr)))

\* a merge that is cut to the limit as it is, unsorted
CombineUnsorted(all, limit) == Slice(all, limit)

\* lines 1418-1429: allActivities.sort(...), then slice(0, limit)
Combine(all, limit) == Slice(SortDesc(all), limit)

\* no fetcher has been called
NoCall == [pc |-> "idle", data |-> Refused, out |-> Returned(<<>>)]
NoAgg == [pc |-> "idle", limit |-> 0, result |-> <<>>]

\* no balance request has come in
NoBalance == [pc |-> "idle", address |-> <<>>, data |-> None, response |-> None]

\* the processNewBlocks invocations that can be in flight together
RunIds == 1..MaxRuns

\* no processNewBlocks invocation
NoRun == [pc |-> "idle", blockNumber |-> None, outcome |-> "none"]

\* no balance request is in flight; the monitor service has processed no
\* block and the chain is at block 0
LateIdle ==
  /\ bal = [b \in ReqIds |-> NoBalance]
  /\ lastProcessedBlock = 0
  /\ blockRuns = [i \in RunIds |-> NoRun]
  /\ head = Some(0)

\* broadcastToClients has not been called on the set of subscribers
NoBroadcast == [calls |-> 0, raised |-> 0]

\* no activity-feed request has come in
NoFeed ==
  [pc |-> "idle", limit |-> 0, chainId |-> None, items |-> <<>>, fetched |-> 0,
   parts |-> <<>>, response |-> None]

FetchIdle ==
  /\ silent = {}
  /\ calls = [k \in Kinds |-> NoCall]
  /\ agg = NoAgg
  /\ feed = NoFeed
  /\ clients = <<>>
  /\ bcast = NoBroadcast
  /\ streams = <<>>
  /\ LateIdle

(***************************************************************************)
(* Handler invocations.                                                    *)
(***************************************************************************)
\* no analyzeMonitoredWallets invocation is in flight
NoCycle == [pc |-> "idle", address |-> <<>>, nexti |-> 0, analysis |-> None]

Idle ==
  [op |-> "none", address |-> <<>>, pc |-> "idle", status |-> "none",
   arr |-> <<>>, data |-> None, analysis |-> None, aiCalls |-> 0, fetches |-> 0,
   fetched |-> None, avail |-> None]

\* the cold-start call loadWalletsFrom0G() at module load, awaiting the store
ColdLoad == [Idle EXCEPT !.op = "coldload", !.pc = "retrieve"]

Quiet == \A r \in ReqIds : req[r].pc = "idle"

\* a new invocation takes the lowest free slot
FreeSlot(r) ==
  /\ req[r].pc = "idle"
  /\ \A q \in ReqIds : q < r => req[q].pc # "idle"

CanStart(r) == FreeSlot(r) /\ started < MaxOps

\* res.json / res.status(..).json: the handler is over
Responded(q, status) == [q EXCEPT !.pc = "done", !.status = status, !.arr = <<>>]

\* generateFallbackAnalysis is not being evaluated on its own
NoEval == [walletData |-> None, verdict |-> None]

InitRegistry ==
  /\ monitoredWallets = <<>>
  /\ backupFile = None
  /\ ogWallets = None
  /\ ogEvents = <<>>
  /\ broadcasts = <<>>
  /\ req = [r \in ReqIds |-> IF r = 1 THEN ColdLoad ELSE Idle]
  /\ ogOk = TRUE
  /\ fsOk = TRUE
  /\ started = 0
  /\ isMonitoring = FALSE
  /\ schedules = 0
  /\ tmWallets = <<>>
  /\ cycle = NoCycle
  /\ clientOpen = TRUE
  /\ indexer = IndexerEmpty

Init == InitRegistry /\ fallback = NoEval /\ FetchIdle

(***************************************************************************)
(* POST /monitor/:address                                                  *)
(***************************************************************************)
\* lines 83-105: validate, then await the classifier on the mock data
StartMonitor(r, a) ==
  /\ CanStart(r)
  /\ started' = started + 1
  /\ req' = [req EXCEPT ![r] =
       IF ~isAddress(a)
       THEN Responded([Idle EXCEPT !.op = "monitor", !.address = a], "invalid")
       ELSE [Idle EXCEPT !.op = "monitor", !.address = a, !.pc = "ai"]]
  /\ UNCHANGED <<monitoredWallets, backupFile, ogWallets, ogEvents, broadcasts,
                 ogOk, fsOk, monitorVars, sideVars>>

\* lines 105-130: the classifier answered or threw; build the item, put it in
\* the map, enter saveToBackupFile (await ensureDataDirectory)
MonitorSet(r) ==
  /\ req[r].op = "monitor" /\ req[r].pc = "ai"
  /\ \E ra \in AIOutcomes :
       LET a == req[r].address
       IN /\ monitoredWallets' = MapSet(monitoredWallets, MonitorKey(a), MakeItem(a, ra))
          /\ req' = [req EXCEPT ![r].pc = "mkdir1", ![r].analysis = ra,
                                ![r].aiCalls = req[r].aiCalls + 1]
  /\ UNCHANGED <<backupFile, ogWallets, ogEvents, broadcasts,
                 ogOk, fsOk, started, monitorVars, sideVars>>

(***************************************************************************)
(* Persistence: saveToBackupFile, syncWalletsTo0G and the durable store.   *)
(***************************************************************************)
\* the messages the handler broadcasts before it responds
FinishMsgs(q) ==
  CASE q.op = "monitor" ->
         << [type |-> "wallet_monitoring_update", action |-> "added",
             walletAddress |-> toLowerCase(q.address),
             riskLevel |-> MakeItem(q.address, q.analysis).riskLevel] >>
    [] q.op = "unmonitor" ->
         << [type |-> "wallet_monitoring_update", action |-> "removed",
             walletAddress |-> toLowerCase(q.address), riskLevel |-> "none"] >>
    [] OTHER -> <<>>

\* websocket.js, broadcastToClients: each message is sent to the subscriber
\* when its socket is open (readyState 1) and skipped when it is not
broadcastToClients(log, msgs) ==
  log \o [i \in 1..Len(msgs) |-> [message |-> msgs[i], sent |-> clientOpen]]

\* a broadcast that raises when the subscriber is not open
BroadcastRaisesIfClosed(open, msgs) == msgs # <<>> /\ ~open

\* whether broadcastToClients raises to the handler that called it.  A
\* subscriber that is not open is skipped; an open one is handed the text,
\* and a write that fails is reported on the error event of the socket
\* (where the subscriber is dropped), not to the caller of send.
BroadcastRaises(open, msgs) == FALSE

\* the answer of a handler after its broadcast: an error raised there is not
\* caught around the call; it reaches asyncHandler (monitor, unmonitor) or
\* the catch of line 334 (analyze) and the caller gets an error response
AnsweredAfter(q, msgs) ==
  IF BroadcastRaises(clientOpen, msgs) THEN Responded([q EXCEPT !.avail = None], "error")
  ELSE Responded(q, "ok")

\* lines 151-170 / 570-585 / 634: broadcastToClients, then res.json
Complete(r) ==
  /\ broadcasts' = broadcastToClients(broadcasts, FinishMsgs(req[r]))
  /\ req' = [req EXCEPT ![r] = AnsweredAfter(req[r], FinishMsgs(req[r]))]

\* saveToBackupFile, after await ensureDataDirectory(): take the array of the
\* map's values and await fs.writeFile
BackupSnapshot(r) ==
  /\ req[r].pc \in {"mkdir1", "mkdir2"}
  /\ req' = [req EXCEPT ![r].arr = MapValues(monitoredWallets),
                        ![r].pc = IF req[r].pc = "mkdir1" THEN "write1" ELSE "write2"]
  /\ UNCHANGED <<monitoredWallets, backupFile, ogWallets, ogEvents, broadcasts,
                 ogOk, fsOk, started, monitorVars, sideVars>>

\* a backup write that is skipped while the durable store is failing
WrittenFileIfStored(file, arr) == IF fsOk /\ ogOk THEN Some(arr) ELSE file

\* fs.writeFile settles: the file holds the array, or the write failed and
\* saveToBackupFile logged it
WrittenFile(file, arr) == IF fsOk THEN Some(arr) ELSE file

\* saveToBackupFile returns.  The monitor handler goes on to storeWalletEvent
\* (line 134); a sync is over and its caller broadcasts and responds.
BackupWrite(r) ==
  /\ req[r].pc \in {"write1", "write2"}
  /\ backupFile' = WrittenFile(backupFile, req[r].arr)
  /\ IF req[r].pc = "write1"
     THEN /\ req' = [req EXCEPT ![r].pc = "event", ![r].arr = <<>>]
          /\ UNCHANGED broadcasts
     ELSE Complete(r)
  /\ UNCHANGED <<monitoredWallets, ogWallets, ogEvents,
                 ogOk, fsOk, started, monitorVars, sideVars>>

\* syncWalletsTo0G stores and saves only a non-empty list (line 400)
SyncGuard(walletsArray) == Len(walletsArray) > 0

\* ogBlockchainService.storeWalletEvent (lines 1094-1126): the event is
\* logged and acknowledged, or the call throws; ogEvents records the events
\* acknowledged (the service keeps nothing a later retrieval returns)
StoredEvent(log, q) ==
  Append(log, [eventType |-> IF q.op = "monitor" THEN "added" ELSE "removed",
               walletAddress |-> toLowerCase(q.address)])

\* lines 133-149 / 551-568: storeWalletEvent settles.  If it threw, the catch
\* skips syncWalletsTo0G; else syncWalletsTo0G takes the array and awaits
\* storeMonitoredWallets when the array is not empty.
StoreEvent(r) ==
  /\ req[r].pc = "event"
  /\ IF ogOk
     THEN /\ ogEvents' = StoredEvent(ogEvents, req[r])
          /\ LET walletsArray == MapValues(monitoredWallets)
             IN IF SyncGuard(walletsArray)
                THEN /\ req' = [req EXCEPT ![r].pc = "store", ![r].arr = walletsArray]
                     /\ UNCHANGED broadcasts
                ELSE Complete(r)
     ELSE /\ UNCHANGED ogEvents
          /\ Complete(r)
  /\ UNCHANGED <<monitoredWallets, backupFile, ogWallets,
                 ogOk, fsOk, started, monitorVars, sideVars>>

\* ogBlockchainService.storeMonitoredWallets (lines 1033-1065): the snapshot
\* is logged and acknowledged, or the call throws and syncWalletsTo0G logs
\* it; ogWallets records the snapshot last acknowledged
StoredWallets(stored, arr) == IF ogOk THEN Some(arr) ELSE stored

\* lines 402-410: storeMonitoredWallets settles; saveToBackupFile is entered
StoreWallets(r) ==
  /\ req[r].pc = "store"
  /\ ogWallets' = StoredWallets(ogWallets, req[r].arr)
  /\ req' = [req EXCEPT ![r].pc = "mkdir2", ![r].arr = <<>>]
  /\ UNCHANGED <<monitoredWallets, backupFile, ogEvents, broadcasts,
                 ogOk, fsOk, started, monitorVars, sideVars>>

(***************************************************************************)
(* DELETE /monitor/:address                                                *)
(***************************************************************************)
\* the key the unmonitor handler looks up and deletes
UnmonitorKey(address) == toLowerCase(address)

\* a handler that does not look at what delete returned
RemovedAlways(m, k) == TRUE

\* line 542: removed = monitoredWallets.delete(key), true iff the key was there
Removed(m, k) == MapHas(m, k)

\* lines 530-561: validate, get, delete; 404 when nothing was deleted; else
\* await storeWalletEvent
StartUnmonitor(r, a) ==
  /\ CanStart(r)
  /\ started' = started + 1
  /\ LET q == [Idle EXCEPT !.op = "unmonitor", !.address = a]
     IN IF ~isAddress(a)
        THEN /\ req' = [req EXCEPT ![r] = Responded(q, "invalid")]
             /\ UNCHANGED monitoredWallets
        ELSE IF ~Removed(monitoredWallets, UnmonitorKey(a))
        THEN /\ req' = [req EXCEPT ![r] = Responded(q, "notfound")]
             /\ UNCHANGED monitoredWallets
        ELSE /\ req' = [req EXCEPT ![r] = [q EXCEPT !.pc = "event"]]
             /\ monitoredWallets' = MapDelete(monitoredWallets, UnmonitorKey(a))
  /\ UNCHANGED <<backupFile, ogWallets, ogEvents, broadcasts,
                 ogOk, fsOk, monitorVars, sideVars>>

(***************************************************************************)
(* POST /sync-to-0g                                                        *)
(***************************************************************************)
StartSync(r) ==
  /\ FreeSlot(r)
  /\ LET q == [Idle EXCEPT !.op = "sync"]
         walletsArray == MapValues(monitoredWallets)
     IN req' = [req EXCEPT ![r] =
          IF SyncGuard(walletsArray)
          THEN [q EXCEPT !.pc = "store", !.arr = walletsArray]
          ELSE Responded(q, "ok")]
  /\ UNCHANGED <<monitoredWallets, backupFile, ogWallets, ogEvents, broadcasts,
                 ogOk, fsOk, started, monitorVars, sideVars>>

(***************************************************************************)
(* loadWalletsFrom0G: at module load and on POST /reload-from-0g           *)
(***************************************************************************)
StartReload(r) ==
  /\ FreeSlot(r)
  /\ req' = [req EXCEPT ![r] = [Idle EXCEPT !.op = "reload", !.pc = "retrieve"]]
  /\ UNCHANGED <<monitoredWallets, backupFile, ogWallets, ogEvents, broadcasts,
                 ogOk, fsOk, started, monitorVars, sideVars>>

\* ogBlockchainService.retrieveMonitoredWallets (lines 1067-1092): the
\* storage is simulated and result.wallets is always the empty array; None
\* when the call throws
RetrieveMonitoredWallets == IF ogOk THEN Some(<<>>) ELSE None

\* line 427: result && result.wallets && result.wallets.length > 0
LoadedFrom0G(result) == result # None /\ Len(result[1]) > 0

\* a loader that never turns to the backup file
ReadBackupFileNever == None

\* fs.readFile + JSON.parse of loadFromBackupFile: None when either throws
ReadBackupFile == IF fsOk THEN backupFile ELSE None

\* lines 419-450: retrieveMonitoredWallets settles; a non-empty result is put
\* into the map, else loadFromBackupFile awaits fs.readFile
LoadRetrieve(r) ==
  /\ req[r].pc = "retrieve"
  /\ LET result == RetrieveMonitoredWallets
     IN IF LoadedFrom0G(result)
        THEN /\ monitoredWallets' = SetAll(monitoredWallets, result[1])
             /\ req' = [req EXCEPT ![r] = Responded(req[r], "ok")]
        ELSE /\ req' = [req EXCEPT ![r].pc = "readFile"]
             /\ UNCHANGED monitoredWallets
  /\ UNCHANGED <<backupFile, ogWallets, ogEvents, broadcasts,
                 ogOk, fsOk, started, monitorVars, sideVars>>

\* lines 376-394: fs.readFile settles; the parsed array is put into the map
LoadReadFile(r) ==
  /\ req[r].pc = "readFile"
  /\ LET data == ReadBackupFile
     IN monitoredWallets' =
          IF data # None THEN SetAll(monitoredWallets, data[1]) ELSE monitoredWallets
  /\ req' = [req EXCEPT ![r] = Responded(req[r], "ok")]
  /\ UNCHANGED <<backupFile, ogWallets, ogEvents, broadcasts,
                 ogOk, fsOk, started, monitorVars, sideVars>>

\* what a cold start would load now, the file being readable: what the
\* store retrieves if that has entities, else the backup file, else nothing
ColdStartSnapshot ==
  IF LoadedFrom0G(RetrieveMonitoredWallets) THEN RetrieveMonitoredWallets[1]
  ELSE IF backupFile # None THEN backupFile[1]
  ELSE <<>>

(***************************************************************************)
(* GET /monitored                                                          *)
(***************************************************************************)
listMonitored == MapValues(monitoredWallets)

(***************************************************************************)
(* POST /analyze/:address                                                  *)
(***************************************************************************)
\* lines 175-193: validate, then await the first of the three fetches
StartAnalyze(r, a) ==
  /\ CanStart(r)
  /\ started' = started + 1
  /\ req' = [req EXCEPT ![r] =
       IF ~isAddress(a)
       THEN Responded([Idle EXCEPT !.op = "analyze", !.address = a], "invalid")
       ELSE [Idle EXCEPT !.op = "analyze", !.address = a, !.pc = "fetch"]]
  /\ UNCHANGED <<monitoredWallets, backupFile, ogWallets, ogEvents, broadcasts,
                 ogOk, fsOk, monitorVars, sideVars>>

\* lines 187-272: the three fetches (transactions, token transfers, balance)
\* have settled, each with its records or empty-handed; the day's metrics are
\* summed up and the classifier is awaited.  The fetches touch nothing but
\* the indexer, so they are taken in one step.  fetched notes what the
\* indexer did.
AnalyzeFetch(r) ==
  /\ req[r].op = "analyze" /\ req[r].pc = "fetch"
  /\ req' = [req EXCEPT
       ![r].pc = "ai",
       ![r].fetched = Some(indexer),
       ![r].data = Some(RealWalletData(getWalletTransactions(indexer),
                                       getTokenTransfers(indexer))),
       ![r].fetches = 3]
  /\ UNCHANGED <<monitoredWallets, backupFile, ogWallets, ogEvents, broadcasts,
                 ogOk, fsOk, started, monitorVars, sideVars>>

\* a fallback verdict that does not look at the activity
AnalysisOfNothing(outcome, walletData) ==
  IF outcome # None THEN outcome[1]
  ELSE generateFallbackAnalysis(RealWalletData(NoTxs, NoTokens))

\* lines 270-281: the classifier's verdict, or the rule-based one when it threw
AnalysisOf(outcome, walletData) ==
  IF outcome # None THEN outcome[1] ELSE generateFallbackAnalysis(walletData)

\* an analysis that files its verdict under the address
RegistryWithVerdict(m, address, analysis) ==
  MapSet(m, toLowerCase(address), MakeItem(address, Some(analysis)))

\* the registry once an analysis has its verdict: the handler has no
\* statement that reads or writes monitoredWallets
RegistryAfterAnalysis(m, address, analysis) == m

\* lines 272-332: the classifier settles; an unusual verdict is streamed to
\* the store (await), any other is answered at once with the verdict and the
\* availability flags
AnalyzeAi(r) ==
  /\ req[r].op = "analyze" /\ req[r].pc = "ai"
  /\ \E outcome \in AIOutcomes :
       LET analysis == AnalysisOf(outcome, req[r].data[1])
           ix == req[r].fetched[1]
           q == [req[r] EXCEPT
                   !.analysis = Some(analysis),
                   !.aiCalls = req[r].aiCalls + 1,
                   !.avail = Some(dataAvailability(getWalletTransactions(ix),
                                                   getTokenTransfers(ix),
                                                   getWalletBalance(ix), analysis))]
       IN /\ req' = [req EXCEPT ![r] =
               IF analysis.isUnusual THEN [q EXCEPT !.pc = "stream"]
               ELSE Responded(q, "ok")]
          /\ monitoredWallets' =
               RegistryAfterAnalysis(monitoredWallets, req[r].address, analysis)
          /\ streams' = IF analysis.isUnusual THEN Append(streams, req[r].address)
                        ELSE streams
  /\ UNCHANGED <<backupFile, ogWallets, ogEvents, broadcasts,
                 ogOk, fsOk, started, monitorVars, quietVars>>

\* sendToSubscribedClients(address, message): broadcastToClients of the
\* message with walletAddress set to the address as given
UnusualActivityMsg(address, analysis) ==
  [type |-> "unusual_activity_detected", action |-> "none",
   walletAddress |-> address, riskLevel |-> analysis.riskLevel]

\* lines 292-345: streamUnusualActivity settles (it stores nothing and its
\* failure is caught); the clients are notified and the caller is answered
\* with the verdict and the availability flags.
AnalyzeStream(r) ==
  /\ req[r].op = "analyze" /\ req[r].pc = "stream"
  /\ LET msg == UnusualActivityMsg(req[r].address, req[r].analysis[1])
     IN /\ broadcasts' = broadcastToClients(broadcasts, <<msg>>)
        /\ req' = [req EXCEPT ![r] = AnsweredAfter(req[r], <<msg>>)]
  /\ UNCHANGED <<monitoredWallets, backupFile, ogWallets, ogEvents,
                 ogOk, fsOk, started, monitorVars, sideVars>>

(***************************************************************************)
(* services/transactionMonitor.js.  addWalletToMonitoring and              *)
(* removeWalletFromMonitoring are methods of the exported service; no      *)
(* route calls them.                                                       *)
(***************************************************************************)
SeqElems(q) == {q[i] : i \in 1..Len(q)}

\* lines 14-40: a second start while active returns; else both cron
\* schedules are registered
StartMonitoring ==
  /\ IF isMonitoring
     THEN UNCHANGED <<isMonitoring, schedules>>
     ELSE /\ schedules < MaxSchedules
          /\ isMonitoring' = TRUE
          /\ schedules' = schedules + 1
  /\ UNCHANGED <<handlerVars, sideVars, broadcasts, started, tmWallets, cycle>>

\* lines 42-45
StopMonitoring ==
  /\ isMonitoring' = FALSE
  /\ UNCHANGED <<handlerVars, sideVars, broadcasts, started, schedules, tmWallets, cycle>>

\* lines 47-50: Set.add keeps an element already there in its place
addWalletToMonitoring(a) ==
  /\ tmWallets' = IF toLowerCase(a) \in SeqElems(tmWallets) THEN tmWallets
                  ELSE Append(tmWallets, toLowerCase(a))
  /\ UNCHANGED <<handlerVars, sideVars, broadcasts, started, isMonitoring, schedules, cycle>>

\* lines 52-55: Set.delete; an iteration in flight goes on with the elements
\* it has not visited
removeWalletFromMonitoring(a) ==
  LET k == toLowerCase(a)
      p == CHOOSE i \in 1..Len(tmWallets) : tmWallets[i] = k
  IN /\ k \in SeqElems(tmWallets)
     /\ tmWallets' = SelectSeq(tmWallets, LAMBDA x : x # k)
     /\ cycle' = IF cycle.pc # "idle" /\ p < cycle.nexti
                 THEN [cycle EXCEPT !.nexti = cycle.nexti - 1] ELSE cycle
     /\ UNCHANGED <<handlerVars, sideVars, broadcasts, started, isMonitoring, schedules>>

\* the for-of loop of analyzeMonitoredWallets takes its next address and
\* awaits the classifier, or is over
NextWallet(c, wallets) ==
  IF c.nexti <= Len(wallets)
  THEN [pc |-> "ai", address |-> wallets[c.nexti], nexti |-> c.nexti + 1,
        analysis |-> None]
  ELSE NoCycle

\* the loop moves on: each wallet analysed counts against MaxOps
MoveOn(c) ==
  /\ cycle' = NextWallet(c, tmWallets)
  /\ IF cycle'.pc = "idle"
     THEN UNCHANGED started
     ELSE started < MaxOps /\ started' = started + 1

\* lines 33-39, 84-104: a cron tick calls analyzeMonitoredWallets, which
\* returns at once when the set is empty
CronAnalyze ==
  /\ schedules > 0
  /\ cycle.pc = "idle"
  /\ MoveOn([NoCycle EXCEPT !.nexti = 1])
  /\ UNCHANGED <<handlerVars, sideVars, broadcasts, isMonitoring, schedules, tmWallets>>

\* lines 104-124: the classifier settles.  A throw is caught and the loop
\* goes on; an unusual verdict is streamed (await); any other goes on.
CycleAi ==
  /\ cycle.pc = "ai"
  /\ \E outcome \in AIOutcomes :
       IF outcome # None /\ outcome[1].isUnusual
       THEN /\ cycle' = [cycle EXCEPT !.pc = "stream", !.analysis = outcome]
            /\ streams' = Append(streams, cycle.address)
            /\ UNCHANGED started
       ELSE MoveOn(cycle) /\ UNCHANGED streams
  /\ UNCHANGED <<handlerVars, quietVars, broadcasts, isMonitoring, schedules, tmWallets>>

\* lines 106-124: the stream and the broadcast stand in one try, the stream
\* first; when it throws, the catch of the loop body logs the error and the
\* broadcast is not reached
CycleNotified(log, streamed, msg) ==
  IF streamed THEN broadcastToClients(log, <<msg>>) ELSE log

\* lines 108-124: streamUnusualActivity settles, the clients are told if it
\* returned, and the loop goes on
CycleStream ==
  /\ cycle.pc = "stream"
  /\ broadcasts' = CycleNotified(broadcasts, ogOk,
       [type |-> "unusual_wallet_activity", action |-> "none",
        walletAddress |-> cycle.address, riskLevel |-> cycle.analysis[1].riskLevel])
  /\ MoveOn(cycle)
  /\ UNCHANGED <<handlerVars, sideVars, isMonitoring, schedules, tmWallets>>

(***************************************************************************)
(* The caller has its response; the process restarts; the environment.     *)
(***************************************************************************)
Retire(r) ==
  /\ req[r].pc = "done"
  /\ req' = [req EXCEPT ![r] = Idle]
  /\ UNCHANGED <<monitoredWallets, backupFile, ogWallets, ogEvents, broadcasts,
                 ogOk, fsOk, started, monitorVars, sideVars>>

\* the process is stopped and started again: the module state is fresh, the
\* store and the file are what they were
Restart ==
  /\ monitoredWallets' = <<>>
  /\ req' = [r \in ReqIds |-> IF r = 1 THEN ColdLoad ELSE Idle]
  /\ isMonitoring' = FALSE
  /\ schedules' = 0
  /\ tmWallets' = <<>>
  /\ cycle' = NoCycle
  /\ UNCHANGED <<backupFile, ogWallets, ogEvents, broadcasts, ogOk, fsOk, started,
                 sideVars>>

ToggleOg ==
  /\ ogOk' = ~ogOk
  /\ UNCHANGED <<monitoredWallets, backupFile, ogWallets, ogEvents, broadcasts,
                 req, fsOk, started, monitorVars, sideVars>>

ToggleFs ==
  /\ fsOk' = ~fsOk
  /\ UNCHANGED <<monitoredWallets, backupFile, ogWallets, ogEvents, broadcasts,
                 req, ogOk, started, monitorVars, sideVars>>

\* the socket of the subscriber closes, or a subscriber connects
ToggleClient ==
  /\ clientOpen' = ~clientOpen
  /\ UNCHANGED <<monitoredWallets, backupFile, ogWallets, ogEvents, broadcasts,
                 req, ogOk, fsOk, started, monitorVars, indexer, fallback, fetchVars,
                 feed, wsVars, streams, lateVars>>

\* the indexer fails or recovers, the address gains or loses activity
IndexerChange(ix) ==
  /\ ix # indexer
  /\ indexer' = ix
  /\ UNCHANGED <<monitoredWallets, backupFile, ogWallets, ogEvents, broadcasts,
                 req, ogOk, fsOk, started, monitorVars, clientOpen, fallback, fetchVars,
                 feed, wsVars, streams, lateVars>>

(***************************************************************************)
(* generateFallbackAnalysis on its own: called on a walletData, it returns *)
(* its verdict.                                                            *)
(***************************************************************************)
\* the walletData it is called on: values at, next to and away from every
\* threshold of the rules
FallbackInputs ==
  [dailyTxCount : {0, 2, 5, 50, 51, 100, 101, 150},
   dailyVolume : {0, 50, 100, 101, 1000, 1001, 1500},
   failedTxCount : {0, 1, 15, 16},
   tokenTransfers : {0, 10, 20, 21},
   totalTransactions : {0, 100, 101}]

InitFallback ==
  /\ InitRegistry
  /\ fallback \in {[walletData |-> Some(d), verdict |-> None] : d \in FallbackInputs}
  /\ FetchIdle

EvalFallback ==
  /\ fallback.walletData # None /\ fallback.verdict = None
  /\ fallback' = [fallback EXCEPT
                    !.verdict = Some(generateFallbackAnalysis(fallback.walletData[1]))]
  /\ UNCHANGED <<monitoredWallets, backupFile, ogWallets, ogEvents, broadcasts,
                 req, ogOk, fsOk, started, monitorVars, clientOpen, indexer,
                 fetchVars, feed, wsVars, streams, lateVars>>

(***************************************************************************)
(* blockchainDataService at work.  makeEtherscanRequest awaits fetch, then *)
(* response.json(), then its delay of requestDelay; nothing in it waits    *)
(* for another request.                                                    *)
(***************************************************************************)
\* the requests to the indexer that are out and not answered yet
InFlight == {k \in Kinds : calls[k].pc = "fetch"}

Limits == 0..MaxLimit \cup {20}

coreVars ==
  <<monitoredWallets, backupFile, ogWallets, ogEvents, broadcasts, req, ogOk, fsOk,
    started, monitorVars, clientOpen, indexer, fallback, wsVars, streams>>

baseVars == <<coreVars, feed, lateVars>>

\* lines 1408-1416: the four fetchers are called in one go, each runs up to
\* its await fetch(...), and Promise.all awaits them
StartAggregate(limit) ==
  /\ agg.pc = "idle"
  /\ \A k \in Kinds : calls[k].pc = "idle"
  /\ agg' = [pc |-> "gather", limit |-> limit, result |-> <<>>]
  /\ calls' = [k \in Kinds |->
       IF k = "token_contract" THEN calls[k] ELSE [calls[k] EXCEPT !.pc = "fetch"]]
  /\ UNCHANGED <<baseVars, silent>>

\* lines 1389-1406: getTokenContractActivity is called, here while no other
\* fetcher is at work
StartTokenContract ==
  /\ calls["token_contract"].pc = "idle"
  /\ agg.pc \in {"idle", "done"}
  /\ calls' = [calls EXCEPT !["token_contract"].pc = "fetch"]
  /\ UNCHANGED <<baseVars, silent, agg>>

\* lines 1191-1199: the indexer answers; an answer that makes the request
\* throw ends the fetcher in its catch, any other starts the delay
Respond(k) ==
  /\ calls[k].pc = "fetch"
  /\ k \notin silent
  /\ \E answer \in AnswersOf(k) :
       calls' = [calls EXCEPT ![k] =
         IF Throws(answer)
         THEN [pc |-> "done", data |-> answer, out |-> Fetcher(TRUE, <<>>)]
         ELSE [pc |-> "delay", data |-> answer, out |-> Returned(<<>>)]]
  /\ UNCHANGED <<baseVars, silent, agg>>

\* lines 1199-1201: the delay is over, makeEtherscanRequest returns
\* data.result and the fetcher formats it
DelayOver(k) ==
  /\ calls[k].pc = "delay"
  /\ calls' = [calls EXCEPT ![k].pc = "done", ![k].out = FetcherOn(k, calls[k].data)]
  /\ UNCHANGED <<baseVars, silent, agg>>

\* [...transactions, ...tokenTransfers, ...nftTransfers, ...internalTxs]
RECURSIVE Spread(_)
Spread(kinds) ==
  IF kinds = <<>> THEN <<>>
  ELSE calls[Head(kinds)].out.records \o Spread(Tail(kinds))

\* lines 1410-1433: Promise.all has settled; the activities are combined,
\* or the catch returns [] when a fetcher raised
Gather ==
  /\ agg.pc = "gather"
  /\ \A i \in 1..Len(WalletKinds) : calls[WalletKinds[i]].pc = "done"
  /\ agg' = [agg EXCEPT
       !.pc = "done",
       !.result = IF \E i \in 1..Len(WalletKinds) : calls[WalletKinds[i]].out.raised
                  THEN <<>>
                  ELSE Combine(Spread(WalletKinds), agg.limit)]
  /\ UNCHANGED <<baseVars, silent, calls>>

\* the service is called while the indexer leaves some kinds of request
\* unanswered
InitFetch ==
  /\ InitRegistry
  /\ fallback = NoEval
  /\ silent \in SUBSET Kinds
  /\ calls = [k \in Kinds |-> NoCall]
  /\ agg = NoAgg
  /\ feed = NoFeed
  /\ clients = <<>>
  /\ bcast = NoBroadcast
  /\ streams = <<>>
  /\ LateIdle

NextFetch ==
  \/ \E limit \in Limits : StartAggregate(limit)
  \/ StartTokenContract
  \/ \E k \in Kinds : Respond(k)
  \/ \E k \in Kinds : DelayOver(k)
  \/ Gather

(***************************************************************************)
(* GET /activity-feed.  The handler filters the registry by chainId, calls *)
(* one fetcher per monitored item, all at once, and merges what they       *)
(* return.                                                                 *)
(***************************************************************************)
\* a limit above Math.floor(limit / n) + 10 for three items
LargeLimit == 16

\* the records of one token contract the indexer holds, more than any
\* request of the model asks for
UpstreamMany == 17

FeedLimits == {0, MaxLimit - 1, LargeLimit}

\* a monitored item of the type and chain given in the body of the monitor
\* request
ItemOf(address, type, chainId) ==
  [MakeItem(address, None) EXCEPT !.type = type, !.chainId = chainId]

\* what saveToBackupFile left in earlier runs: nothing, a wallet, a wallet
\* and a token, and these with a contract on another chain
FeedBackups ==
  { <<>>,
    <<ItemOf(<<"a">>, "wallet", "1")>>,
    <<ItemOf(<<"a">>, "wallet", "1"), ItemOf(<<"b">>, "token", "1")>>,
    <<ItemOf(<<"a">>, "wallet", "1"), ItemOf(<<"b">>, "token", "1"),
      ItemOf(<<"c">>, "contract", "137")>> }

\* req.query.chainId: absent, or a chain
FeedChains == {None, Some("1"), Some("137"), Some("5")}

\* the whole registry, whatever chain is asked for
FeedItemsUnfiltered(m, chainId) == MapValues(m)

\* lines 743-744: Array.from(monitoredWallets.values())
\*   .filter(w => !chainId || w.chainId === chainId)
FeedItems(m, chainId) ==
  SelectSeq(MapValues(m), LAMBDA w : chainId = None \/ w.chainId = chainId[1])

\* lines 773 and 779: Math.floor(parseInt(limit) / n) + 10 for a token,
\* + 5 for the other types
PerItemLimit(limit, n, type) == (limit \div n) + (IF type = "token" THEN 10 ELSE 5)

KindIndex(kind) == CHOOSE i \in 1..Len(WalletKinds) : WalletKinds[i] = kind

\* the timeStamp fields of the n newest records of a kind the indexer holds
\* for an address; those of the token contract are the newest of all
Stamps(address, kind, n) ==
  IF kind = "token_contract" THEN [j \in 1..n |-> 100 - j]
  ELSE [j \in 1..n |->
         60 - 16 * j + 4 * (KindIndex(kind) - 1) + (IF address = <<"a">> THEN 0 ELSE 1)]

\* the answers of the indexer to a request about an address; it may hold
\* and return more records than the offset asks for
FeedAnswers(address, kind) ==
  { Refused, Json("1", "OK", TRUE, <<>>), Json("1", "OK", TRUE, Stamps(address, kind, 2)) }
    \cup (IF kind = "token_contract"
           THEN {Json("1", "OK", TRUE, Stamps(address, kind, UpstreamMany))}
           ELSE {})

\* a fetcher from its call to its return, given the answer of the indexer
FetcherGiven(kind, answer) ==
  IF Throws(answer) THEN Fetcher(TRUE, <<>>) ELSE FetcherOn(kind, answer)

RECURSIVE Flat(_)
Flat(arrs) == IF arrs = <<>> THEN <<>> ELSE Head(arrs) \o Flat(Tail(arrs))

\* getAggregatedWalletActivity(address, limit) from its call to its return,
\* given the answers to its four requests
AggregatedGiven(answers, limit) ==
  LET outs == [i \in 1..Len(WalletKinds) |-> FetcherGiven(WalletKinds[i], answers[i])]
  IN IF \E i \in DOMAIN outs : outs[i].raised THEN <<>>
     ELSE Combine(Flat([i \in DOMAIN outs |-> outs[i].records]), limit)

\* getTokenContractActivity(address, limit): the limit goes to the indexer
\* as offset and is not applied to what comes back
TokenContractGiven(answer, limit) == FetcherGiven("token_contract", answer).records

\* lines 784-791: the monitoring context added to each activity
Annotate(activities, item) ==
  [i \in 1..Len(activities) |->
    [type |-> activities[i].type, timestamp |-> activities[i].timestamp,
     monitoredItem |-> item.address, monitoredType |-> item.type]]

FeedResponse(activities, walletsCount) ==
  [status |-> 200, activities |-> activities, walletsCount |-> walletsCount,
   totalActivities |-> Len(activities)]

\* lines 740-764: the request comes in; with no item to report on it is
\* answered at once, else every item's fetcher is called
StartFeed(limit, chainId) ==
  /\ feed.pc = "idle"
  /\ LET items == FeedItems(monitoredWallets, chainId)
     IN feed' =
          IF items = <<>>
          THEN [pc |-> "done", limit |-> limit, chainId |-> chainId, items |-> items,
                fetched |-> 0, parts |-> <<>>,
                response |-> Some(FeedResponse(<<>>, 0))]
          ELSE [pc |-> "fetch", limit |-> limit, chainId |-> chainId, items |-> items,
                fetched |-> Len(items), parts |-> [i \in 1..Len(items) |-> None],
                response |-> None]
  /\ UNCHANGED <<coreVars, fetchVars, lateVars>>

\* lines 764-800: the fetcher called for item i returns and its activities
\* are annotated
FeedItemDone(i) ==
  /\ feed.pc = "fetch"
  /\ i \in DOMAIN feed.items
  /\ feed.parts[i] = None
  /\ LET item == feed.items[i]
         limit == PerItemLimit(feed.limit, Len(feed.items), item.type)
     IN IF item.type = "token"
        THEN \E answer \in FeedAnswers(item.address, "token_contract") :
               feed' = [feed EXCEPT !.parts[i] =
                 Some(Annotate(TokenContractGiven(answer, limit), item))]
        ELSE \E answers \in
                 [1..Len(WalletKinds) -> UNION {FeedAnswers(item.address, WalletKinds[k]) :
                                                  k \in 1..Len(WalletKinds)}] :
               /\ \A k \in 1..Len(WalletKinds) :
                    answers[k] \in FeedAnswers(item.address, WalletKinds[k])
               /\ feed' = [feed EXCEPT !.parts[i] =
                    Some(Annotate(AggregatedGiven(answers, limit), item))]
  /\ UNCHANGED <<coreVars, fetchVars, lateVars>>

\* lines 803-817: Promise.all has settled; flat, sort, slice(0, limit)
FeedRespond ==
  /\ feed.pc = "fetch"
  /\ \A i \in DOMAIN feed.parts : feed.parts[i] # None
  /\ feed' = [feed EXCEPT
       !.pc = "done",
       !.response = Some(FeedResponse(
          Combine(Flat([i \in DOMAIN feed.parts |-> feed.parts[i][1]]), feed.limit),
          Len(feed.items)))]
  /\ UNCHANGED <<coreVars, fetchVars, lateVars>>

\* the process starts over a backup file of items of several types and
\* chains
InitFeed ==
  /\ monitoredWallets = <<>>
  /\ backupFile \in {Some(items) : items \in FeedBackups}
  /\ ogWallets = None
  /\ ogEvents = <<>>
  /\ broadcasts = <<>>
  /\ req = [r \in ReqIds |-> IF r = 1 THEN ColdLoad ELSE Idle]
  /\ ogOk = TRUE
  /\ fsOk = TRUE
  /\ started = 0
  /\ isMonitoring = FALSE
  /\ schedules = 0
  /\ tmWallets = <<>>
  /\ cycle = NoCycle
  /\ clientOpen = TRUE
  /\ indexer = IndexerEmpty
  /\ fallback = NoEval
  /\ FetchIdle

NextFeed ==
  \/ \E r \in ReqIds : LoadRetrieve(r) \/ LoadReadFile(r) \/ Retire(r)
  \/ \E limit \in FeedLimits, chainId \in FeedChains :
       Quiet /\ StartFeed(limit, chainId)
  \/ \E i \in 1..3 : FeedItemDone(i)
  \/ FeedRespond

(***************************************************************************)
(* websocket.js with several subscribers.  A socket is in the set from its *)
(* connection to its close or error event.  readyState is 1 (OPEN) until   *)
(* the socket closes, then 3; the close event that takes the socket out of *)
(* the set comes later, so a closed socket can be met by a broadcast.  An  *)
(* open socket is well, slow (the peer does not read, what is sent piles   *)
(* up in the buffer of the socket) or broken (the connection is gone and   *)
(* the server has not noticed: a write fails and the socket emits error).  *)
(* accepted are the messages send took for the peer, in order.             *)
(***************************************************************************)
ClientIds == 1..MaxClients

OPEN == 1
CLOSED == 3

\* the text of the welcome message of line 15
Welcome == 0

\* JSON.stringify(message)
Stringify(message) == <<"json", message>>

\* a send that puts the text before what the socket took earlier
SendInFront(client, messageStr) ==
  IF client.health = "broken" THEN [client EXCEPT !.errorPending = TRUE]
  ELSE [client EXCEPT !.accepted = <<messageStr>> \o @]

\* client.send(messageStr) on an open socket: the text is taken for the
\* peer, or, the connection being gone, the write fails and the error is
\* emitted on the socket later; send returns to its caller either way
Send(client, messageStr) ==
  IF client.health = "broken" THEN [client EXCEPT !.errorPending = TRUE]
  ELSE [client EXCEPT !.accepted = Append(@, messageStr)]

\* a forEach that gives up at the first subscriber it cannot send to: the
\* exception leaves the later ones without the message
RECURSIVE SendUntilFailure(_, _)
SendUntilFailure(cs, messageStr) ==
  IF cs = <<>> THEN [clients |-> <<>>, raised |-> FALSE]
  ELSE IF Head(cs).readyState # OPEN \/ Head(cs).health = "broken"
  THEN [clients |-> cs, raised |-> TRUE]
  ELSE LET rest == SendUntilFailure(Tail(cs), messageStr)
       IN [clients |-> <<Send(Head(cs), messageStr)>> \o rest.clients,
           raised |-> rest.raised]

\* lines 68-72: clients.forEach(client => { if (client.readyState === 1)
\* client.send(messageStr) }), in the order of the set
SendEach(cs, messageStr) ==
  [clients |-> [i \in 1..Len(cs) |->
                 IF cs[i].readyState = OPEN THEN Send(cs[i], messageStr) ELSE cs[i]],
   raised |-> FALSE]

InSet(id) == \E i \in DOMAIN clients : clients[i].id = id

WithId(id) == clients[CHOOSE i \in DOMAIN clients : clients[i].id = id]

Change(id, client) == [i \in DOMAIN clients |-> IF clients[i].id = id THEN client ELSE clients[i]]

wsRest ==
  <<monitoredWallets, backupFile, ogWallets, ogEvents, broadcasts, req, ogOk, fsOk,
    started, monitorVars, clientOpen, indexer, fallback, fetchVars, feed,
    streams, lateVars>>

\* lines 6-19: a socket connects, is added to the set and sent the welcome
Connect(id) ==
  /\ ~InSet(id)
  /\ clients' = Append(clients,
       Send([id |-> id, readyState |-> OPEN, health |-> "well", accepted |-> <<>>,
             errorPending |-> FALSE], Stringify(Welcome)))
  /\ UNCHANGED <<wsRest, bcast>>

\* the peer stops reading, or the connection breaks unnoticed
Ail(id, health) ==
  /\ InSet(id)
  /\ WithId(id).readyState = OPEN
  /\ WithId(id).health = "well"
  /\ clients' = Change(id, [WithId(id) EXCEPT !.health = health])
  /\ UNCHANGED <<wsRest, bcast>>

\* the socket closes: readyState leaves OPEN before the close event is
\* emitted
SocketCloses(id) ==
  /\ InSet(id)
  /\ WithId(id).readyState = OPEN
  /\ clients' = Change(id, [WithId(id) EXCEPT !.readyState = CLOSED])
  /\ UNCHANGED <<wsRest, bcast>>

\* lines 51-56: ws.on('close'): clients.delete(ws)
OnClose(id) ==
  /\ InSet(id)
  /\ WithId(id).readyState = CLOSED
  /\ clients' = SelectSeq(clients, LAMBDA c : c.id # id)
  /\ UNCHANGED <<wsRest, bcast>>

\* lines 59-62: ws.on('error'): clients.delete(ws)
OnError(id) ==
  /\ InSet(id)
  /\ WithId(id).errorPending
  /\ clients' = SelectSeq(clients, LAMBDA c : c.id # id)
  /\ UNCHANGED <<wsRest, bcast>>

\* lines 66-78: broadcastToClients(message), from its call to its return
Broadcast ==
  /\ bcast.calls < MaxBroadcasts
  /\ LET sent == SendEach(clients, Stringify(bcast.calls + 1))
     IN /\ clients' = sent.clients
        /\ bcast' = [calls |-> bcast.calls + 1,
                     raised |-> bcast.raised + (IF sent.raised THEN 1 ELSE 0)]
  /\ UNCHANGED wsRest

NextWs ==
  \/ \E id \in ClientIds : Connect(id)
  \/ \E id \in ClientIds, health \in {"slow", "broken"} : Ail(id, health)
  \/ \E id \in ClientIds : SocketCloses(id)
  \/ \E id \in ClientIds : OnClose(id)
  \/ \E id \in ClientIds : OnError(id)
  \/ Broadcast

(***************************************************************************)
(* GET /balance/:address and blockchainDataService.getWalletBalance.  The  *)
(* result of the indexer is the balance in wei as a decimal string, here   *)
(* its leading digits and the number of zeros that follow them.            *)
(***************************************************************************)
WeiString(digits, zeros) == [digits |-> digits, zeros |-> zeros]

\* the answers of the indexer to a balance request: refused, an error
\* status (its result a text), and balances of 0 wei, 7 wei, 0.5 ETH,
\* 1.5 ETH and 20 ETH
BalanceAnswers ==
  { Refused,
    Json("0", "NOTOK", FALSE, <<>>),
    Json("1", "OK", FALSE, WeiString(<<0>>, 0)),
    Json("1", "OK", FALSE, WeiString(<<7>>, 0)),
    Json("1", "OK", FALSE, WeiString(<<5>>, 17)),
    Json("1", "OK", FALSE, WeiString(<<1, 5>>, 17)),
    Json("1", "OK", FALSE, WeiString(<<2>>, 19)) }

RECURSIVE Pow10(_)
Pow10(n) == IF n = 0 THEN 1 ELSE 10 * Pow10(n - 1)

\* parseInt on a string of decimal digits
RECURSIVE ParseInt(_)
ParseInt(digits) ==
  IF digits = <<>> THEN 0
  ELSE 10 * ParseInt(SubSeq(digits, 1, Len(digits) - 1)) + digits[Len(digits)]

\* (parseInt(balance) / 1e18).toFixed(6), as the number of millionths of an
\* ETH the text shows: the wei are m * 10^zeros, a millionth is 10^12 wei.
\* With fewer than three zeros the leading digits, which stay below 2^31,
\* come to less than half a millionth.
BalanceEth(balance) ==
  LET m == ParseInt(balance.digits)
      k == 12 - balance.zeros
  IN IF k <= 0 THEN m * Pow10(0 - k)
     ELSE IF k > 9 THEN 0
     ELSE (m + Pow10(k) \div 2) \div Pow10(k)

\* a lookup that answers a failure with a balance of zero
WalletBalanceZeroOnFailure(address, answer) ==
  IF Throws(answer)
  THEN Some([address |-> address, balance |-> WeiString(<<0>>, 0), balanceEth |-> 0])
  ELSE Some([address |-> address, balance |-> answer.items,
             balanceEth |-> BalanceEth(answer.items)])

\* lines 1367-1387: getWalletBalance from its call to its return, given the
\* answer of the indexer: the balance object, or null from the catch
WalletBalanceGiven(address, answer) ==
  IF Throws(answer) THEN None
  ELSE Some([address |-> address, balance |-> answer.items,
             balanceEth |-> BalanceEth(answer.items)])

\* lines 843-849: if (!balance) 500, else res.json(balance)
BalanceResponse(balance) ==
  IF balance = None THEN [status |-> 500, body |-> None]
  ELSE [status |-> 200, body |-> balance]

\* lines 830-841: validate, then await getWalletBalance, which awaits fetch
StartBalance(b, a) ==
  /\ bal[b].pc = "idle"
  /\ bal' = [bal EXCEPT ![b] =
       IF ~isAddress(a)
       THEN [pc |-> "done", address |-> a, data |-> None,
             response |-> Some([status |-> 400, body |-> None])]
       ELSE [pc |-> "fetch", address |-> a, data |-> None, response |-> None]]
  /\ UNCHANGED <<coreVars, fetchVars, feed, blockVars>>

\* lines 1191-1199: the indexer answers; an answer that makes the request
\* throw is answered with 500, any other starts the delay
BalanceAnswered(b) ==
  /\ bal[b].pc = "fetch"
  /\ \E answer \in BalanceAnswers :
       bal' = [bal EXCEPT ![b] =
         IF Throws(answer)
         THEN [bal[b] EXCEPT !.pc = "done", !.data = Some(answer),
                 !.response =
                   Some(BalanceResponse(WalletBalanceGiven(bal[b].address, answer)))]
         ELSE [bal[b] EXCEPT !.pc = "delay", !.data = Some(answer)]]
  /\ UNCHANGED <<coreVars, fetchVars, feed, blockVars>>

\* lines 1199-1201, 1376-1381, 850: the delay is over, the balance object is
\* built and sent
BalanceDelayOver(b) ==
  /\ bal[b].pc = "delay"
  /\ bal' = [bal EXCEPT ![b] =
       [bal[b] EXCEPT !.pc = "done",
          !.response =
            Some(BalanceResponse(WalletBalanceGiven(bal[b].address, bal[b].data[1])))]]
  /\ UNCHANGED <<coreVars, fetchVars, feed, blockVars>>

\* the caller has its response
BalanceRetire(b) ==
  /\ bal[b].pc = "done"
  /\ bal' = [bal EXCEPT ![b] = NoBalance]
  /\ UNCHANGED <<coreVars, fetchVars, feed, blockVars>>

NextBal ==
  \E b \in ReqIds :
    \/ \E a \in Inputs : StartBalance(b, a)
    \/ BalanceAnswered(b)
    \/ BalanceDelayOver(b)
    \/ BalanceRetire(b)

(***************************************************************************)
(* transactionMonitor.processNewBlocks, called by the ten-second schedule  *)
(* and not awaited by it, so that invocations overlap when the network is  *)
(* slow.  getNetworkInfo awaits provider.getNetwork, getBlockNumber and    *)
(* getFeeData in turn and throws when one of them fails; head is what the  *)
(* provider answers for the block number, None while it fails.             *)
(***************************************************************************)
\* what the provider can answer
Heads == {None} \cup {Some(n) : n \in 0..MaxBlock}

\* the provider moves to another block (RPC nodes differ in what they have
\* seen), fails or recovers
HeadChange(h) ==
  /\ h # head
  /\ head' = h
  /\ UNCHANGED <<coreVars, fetchVars, feed, bal, lastProcessedBlock, blockRuns>>

\* an invocation that takes the block number it observed, newer or not
ProcessedUnchecked(last, currentBlock) == currentBlock

\* lines 60-78: lastProcessedBlock after the invocation that observed
\* currentBlock: unchanged when currentBlock <= lastProcessedBlock
Processed(last, currentBlock) ==
  IF currentBlock <= last THEN last ELSE currentBlock

\* line 57, catch of lines 79-81: the invocation is over
RunOver(i, outcome) ==
  blockRuns' = [blockRuns EXCEPT ![i].pc = "done", ![i].outcome = outcome]

\* lines 24-30, 57-59: a schedule ticks; processNewBlocks awaits
\* getNetworkInfo, which awaits provider.getNetwork
CronBlocks(i) ==
  /\ schedules > 0
  /\ blockRuns[i].pc = "idle"
  /\ \A j \in RunIds : j < i => blockRuns[j].pc # "idle"
  /\ blockRuns' = [blockRuns EXCEPT ![i].pc = "getNetwork"]
  /\ UNCHANGED <<coreVars, fetchVars, feed, bal, lastProcessedBlock, head>>

\* ogBlockchain.js line 98: getNetwork settles; getBlockNumber is awaited
NetworkSettles(i) ==
  /\ blockRuns[i].pc = "getNetwork"
  /\ IF head = None THEN RunOver(i, "failed")
     ELSE blockRuns' = [blockRuns EXCEPT ![i].pc = "getBlockNumber"]
  /\ UNCHANGED <<coreVars, fetchVars, feed, bal, lastProcessedBlock, head>>

\* ogBlockchain.js line 99: getBlockNumber settles; getFeeData is awaited
BlockNumberSettles(i) ==
  /\ blockRuns[i].pc = "getBlockNumber"
  /\ IF head = None THEN RunOver(i, "failed")
     ELSE blockRuns' = [blockRuns EXCEPT ![i].pc = "getFeeData", ![i].blockNumber = head]
  /\ UNCHANGED <<coreVars, fetchVars, feed, bal, lastProcessedBlock, head>>

\* ogBlockchain.js lines 100-112, transactionMonitor.js lines 59-82:
\* getFeeData settles and getNetworkInfo returns or throws; processNewBlocks
\* compares, walks the blocks and assigns without another await
FeeDataSettles(i) ==
  /\ blockRuns[i].pc = "getFeeData"
  /\ IF head = None
     THEN /\ RunOver(i, "failed")
          /\ UNCHANGED lastProcessedBlock
     ELSE LET currentBlock == blockRuns[i].blockNumber[1]
          IN /\ lastProcessedBlock' = Processed(lastProcessedBlock, currentBlock)
             /\ RunOver(i, IF currentBlock <= lastProcessedBlock
                           THEN "no new blocks" ELSE "processed")
  /\ UNCHANGED <<coreVars, fetchVars, feed, bal, head>>

\* the callback of the schedule returns
RunRetire(i) ==
  /\ blockRuns[i].pc = "done"
  /\ blockRuns' = [blockRuns EXCEPT ![i] = NoRun]
  /\ UNCHANGED <<coreVars, fetchVars, feed, bal, lastProcessedBlock, head>>

NextBlocks ==
  \/ StartMonitoring
  \/ StopMonitoring
  \/ \E h \in Heads : HeadChange(h)
  \/ \E i \in RunIds :
       \/ CronBlocks(i)
       \/ NetworkSettles(i)
       \/ BlockNumberSettles(i)
       \/ FeeDataSettles(i)
       \/ RunRetire(i)

(***************************************************************************)
(* Specifications.                                                         *)
(*   Spec     the HTTP handlers, overlapping at their awaits; the process  *)
(*            restarts and the store or the file fail or recover while no  *)
(*            handler is in flight.                                        *)
(*   SpecSeq  the same with one handler in flight at a time.               *)
(*   SpecMon  the transaction monitor service with its scheduled cycle,    *)
(*            beside the monitor and unmonitor handlers, one at a time,    *)
(*            with a healthy store and file.                               *)
(*   SpecCalm the handlers one at a time, in one run of the process, with  *)
(*            a healthy store and file.                                    *)
(*   SpecAn   analyze requests, overlapping, while the indexer, the store  *)
(*            and the subscribers fail or recover at any time.             *)
(*   SpecRace monitor, unmonitor and analyze of one address, overlapping,  *)
(*            with a healthy store and file, in a process started on the   *)
(*            backup file of an earlier run.                               *)
(*   SpecFb   generateFallbackAnalysis called on each of FallbackInputs.   *)
(*   SpecFetch  blockchainDataService: one getAggregatedWalletActivity and *)
(*            one getTokenContractActivity, against an indexer that        *)
(*            refuses, reports errors, answers, or stays silent.           *)
(*   SpecFetchFair  the same, where every step that can be taken is taken  *)
(*            in the end.                                                  *)
(*   SpecPub  the publishers of events: monitor, unmonitor and analyze     *)
(*            requests one at a time and the scheduled cycle, while the    *)
(*            durable store fails and recovers.                            *)
(*   SpecBlocks  the monitor service is started and stopped, its block     *)
(*            schedule ticks and processNewBlocks invocations overlap      *)
(*            while the provider moves between blocks, fails and recovers. *)
(*   SpecBal  balance requests, side by side, against an indexer that      *)
(*            refuses, reports an error or answers with a balance.         *)
(*   SpecWs   websocket.js: sockets connect, ail, close and are dropped     *)
(*            while broadcastToClients is called.                          *)
(*   SpecFeed  one activity-feed request after a cold start over a backup  *)
(*            file of up to three items of several types and chains.       *)
(***************************************************************************)
Issue ==
  \E r \in ReqIds :
    \/ \E a \in Inputs : StartMonitor(r, a)
    \/ \E a \in Inputs : StartUnmonitor(r, a)
    \/ \E a \in Inputs : StartAnalyze(r, a)
    \/ StartSync(r)
    \/ StartReload(r)

Step ==
  \E r \in ReqIds :
    \/ MonitorSet(r)
    \/ BackupSnapshot(r)
    \/ BackupWrite(r)
    \/ StoreEvent(r)
    \/ StoreWallets(r)
    \/ LoadRetrieve(r)
    \/ LoadReadFile(r)
    \/ AnalyzeFetch(r)
    \/ AnalyzeAi(r)
    \/ AnalyzeStream(r)
    \/ Retire(r)

Env == ToggleOg \/ ToggleFs

Monitor ==
  \/ StartMonitoring
  \/ StopMonitoring
  \/ \E a \in {<<"a">>, <<"B">>} : addWalletToMonitoring(a)
  \/ \E a \in {<<"a">>, <<"B">>} : removeWalletFromMonitoring(a)
  \/ CronAnalyze
  \/ CycleAi
  \/ CycleStream

Next == Issue \/ Step \/ (Quiet /\ (Restart \/ Env))

Spec == Init /\ [][Next]_vars

NextSeq == (Quiet /\ (Issue \/ Restart \/ Env)) \/ Step

SpecSeq == Init /\ [][NextSeq]_vars

IssueMon ==
  \E r \in ReqIds :
    \/ StartMonitor(r, <<"A">>)
    \/ StartUnmonitor(r, <<"A">>)

StepMon ==
  \E r \in ReqIds :
    \/ MonitorSet(r)
    \/ BackupSnapshot(r)
    \/ BackupWrite(r)
    \/ StoreEvent(r)
    \/ StoreWallets(r)
    \/ LoadRetrieve(r)
    \/ LoadReadFile(r)
    \/ Retire(r)

NextMon == Monitor \/ (Quiet /\ IssueMon) \/ StepMon

SpecMon == Init /\ [][NextMon]_vars

NextCalm == (Quiet /\ Issue) \/ Step

SpecCalm == Init /\ [][NextCalm]_vars

IssuePub ==
  \E r \in ReqIds :
    \/ StartMonitor(r, <<"A">>)
    \/ StartUnmonitor(r, <<"A">>)
    \/ StartAnalyze(r, <<"A">>)

NextPub == Monitor \/ (Quiet /\ IssuePub) \/ Step \/ (Quiet /\ ToggleOg)

SpecPub == Init /\ [][NextPub]_vars

IssueAn == \E r \in ReqIds : \E a \in {<<"a">>, <<"g">>} : StartAnalyze(r, a)

StepAn ==
  \E r \in ReqIds :
    \/ LoadRetrieve(r)
    \/ LoadReadFile(r)
    \/ AnalyzeFetch(r)
    \/ AnalyzeAi(r)
    \/ AnalyzeStream(r)
    \/ Retire(r)

EnvAn ==
  \/ ToggleOg
  \/ ToggleClient
  \/ \E ix \in IndexerStates : IndexerChange(ix)

NextAn == IssueAn \/ StepAn \/ EnvAn

SpecAn == Init /\ [][NextAn]_vars

\* the process starts on the backup file an earlier run left, with "a"
\* monitored in it
InitRace ==
  /\ monitoredWallets = <<>>
  /\ backupFile = Some(<<MakeItem(<<"a">>, None)>>)
  /\ ogWallets = None
  /\ ogEvents = <<>>
  /\ broadcasts = <<>>
  /\ req = [r \in ReqIds |-> IF r = 1 THEN ColdLoad ELSE Idle]
  /\ ogOk = TRUE
  /\ fsOk = TRUE
  /\ started = 0
  /\ isMonitoring = FALSE
  /\ schedules = 0
  /\ tmWallets = <<>>
  /\ cycle = NoCycle
  /\ clientOpen = TRUE
  /\ indexer = IndexerEmpty
  /\ fallback = NoEval
  /\ FetchIdle

IssueRace ==
  \E r \in ReqIds :
    \/ StartMonitor(r, <<"a">>)
    \/ StartUnmonitor(r, <<"a">>)
    \/ StartAnalyze(r, <<"a">>)

\* the cold-start load is over and its slot is free again
LoadOver == \A r \in ReqIds : req[r].op # "coldload"

\* requests arrive once the load is over; a second one takes slot 2 while
\* the first is in slot 1
NextRace == (LoadOver /\ IssueRace) \/ Step

SpecRace == InitRace /\ [][NextRace]_vars

SpecFb == InitFallback /\ [][EvalFallback]_vars

SpecFetch == InitFetch /\ [][NextFetch]_vars

SpecFeed == InitFeed /\ [][NextFeed]_vars

SpecWs == Init /\ [][NextWs]_vars

SpecBal == Init /\ [][NextBal]_vars

SpecBlocks == Init /\ [][NextBlocks]_vars

\* the indexer answers the requests it does not leave unanswered, timers
\* fire, and a settled Promise.all resumes its caller
SpecFetchFair ==
  /\ SpecFetch
  /\ \A k \in Kinds : WF_vars(Respond(k)) /\ WF_vars(DelayOver(k))
  /\ WF_vars(Gather)

(***************************************************************************)
(* Properties.                                                             *)
(***************************************************************************)
Addresses(arr) == {arr[i].address : i \in 1..Len(arr)}

\* the handler invocation in slot r was of the given operation and has
\* answered with success
Completed(r, op) == req[r].op = op /\ req[r].pc = "done" /\ req[r].status = "ok"

\* C1: the live registry never holds two entities whose addresses agree
\* up to letter case, and when monitor(A) has completed for a valid A the
\* list of monitored entities holds exactly one entity whose address is
\* lowercase(A), whether A was monitored before or not and in whichever
\* letter case it was given.
C1_OneEntityPerAddress ==
  /\ \A i, j \in 1..Len(monitoredWallets) :
       toLowerCase(monitoredWallets[i].value.address)
         = toLowerCase(monitoredWallets[j].value.address) => i = j
  /\ \A r \in ReqIds :
       Completed(r, "monitor") =>
         Cardinality({i \in 1..Len(listMonitored) :
                        listMonitored[i].address = toLowerCase(req[r].address)}) = 1

\* monitor("A") has completed after an earlier monitor("a"): both events are
\* in the log and the registry holds one entity
C1_Witness ==
  /\ \E r \in ReqIds : Completed(r, "monitor") /\ req[r].address = <<"A">>
  /\ Len(ogEvents) = 2
  /\ \A i \in 1..2 : ogEvents[i] = [eventType |-> "added", walletAddress |-> <<"a">>]
  /\ Len(listMonitored) = 1

\* C2: when unmonitor(A) has completed with success, the snapshot a cold
\* start would read (what the store retrieves, else the backup file) holds no
\* entity with address A, whatever the size of the registry was.
C2_RemovalPersisted ==
  \A r \in ReqIds :
    Completed(r, "unmonitor") =>
      toLowerCase(req[r].address) \notin Addresses(ColdStartSnapshot)

\* C3: when the cold-start load is over and the durable store was failing
\* or held no entity, the registry holds exactly the entities of the backup
\* file, in its order; it is empty when the file is missing or unreadable;
\* the load has not raised.
C3_ColdStartFallback ==
  \A r \in ReqIds :
    (req[r].op = "coldload" /\ req[r].pc = "done") =>
      /\ req[r].status = "ok"
      /\ (RetrieveMonitoredWallets = <<>> \/ RetrieveMonitoredWallets = << <<>> >>) =>
           listMonitored = (IF fsOk /\ backupFile # <<>> THEN backupFile[1] ELSE <<>>)

\* a cold start with the store failing has recovered the two entities of
\* the backup file
C3_Witness ==
  /\ \E r \in ReqIds : req[r].op = "coldload" /\ req[r].pc = "done"
  /\ ~ogOk /\ fsOk
  /\ backupFile # <<>> /\ Len(backupFile[1]) = 2
  /\ Len(listMonitored) = 2

\* C4: when an analysis of a monitored address has completed with verdict V,
\* the entity of that address has riskLevel V.riskLevel, the riskScore of
\* that level, and hasAlerts equal to V.isUnusual.  (lastCheckedAt and the
\* alert count are not needed to tell the registry was left alone.)
C4_AnalysisUpdatesEntity ==
  \A r \in ReqIds :
    (Completed(r, "analyze") /\ MapHas(monitoredWallets, toLowerCase(req[r].address))) =>
      LET entity == MapGet(monitoredWallets, toLowerCase(req[r].address))
          V == req[r].analysis[1]
      IN /\ entity.riskLevel = V.riskLevel
         /\ entity.riskScore = getRiskScore(V.riskLevel)
         /\ entity.hasAlerts = V.isUnusual

\* C5: an entity that a completed monitor(A) placed in the live registry is
\* among the wallets the scheduled analysis cycle goes through.
C5_MonitoredTakePart ==
  \A r \in ReqIds :
    Completed(r, "monitor") =>
      toLowerCase(req[r].address) \in SeqElems(tmWallets)

\* C6: an unmonitor of a valid address that the live registry does not hold
\* answers not-found in its first step, and that step leaves the registry,
\* the backup file, the stored snapshot, the event log and the broadcast log
\* as they were.
C6_UnmonitorAbsent ==
  [][\A r \in ReqIds :
       ( /\ req[r].pc = "idle"
         /\ req'[r].op = "unmonitor"
         /\ req'[r].address \in {<<"a">>, <<"A">>, <<"b">>}
         /\ toLowerCase(req'[r].address) \notin MapKeys(monitoredWallets) )
       => /\ req'[r].pc = "done"
          /\ req'[r].status = "notfound"
          /\ UNCHANGED <<monitoredWallets, backupFile, ogWallets, ogEvents, broadcasts>>
    ]_vars

\* unmonitor("b") has answered not-found while another address is monitored
\* and persisted
C6_Witness ==
  /\ \E r \in ReqIds :
       req[r].op = "unmonitor" /\ req[r].status = "notfound" /\ req[r].address = <<"b">>
  /\ Len(monitoredWallets) = 1
  /\ backupFile # <<>>
  /\ ogWallets # <<>>

\* the latest event the log holds for address k is its removal
RemovedLast(k) ==
  \E i \in 1..Len(ogEvents) :
    /\ ogEvents[i] = [eventType |-> "removed", walletAddress |-> k]
    /\ \A j \in (i + 1)..Len(ogEvents) : ogEvents[j].walletAddress # k

\* C7: once unmonitor(A) has succeeded (its removal is the latest event of A)
\* and no monitor(A) has been issued since, the list of monitored entities
\* does not hold A.
C7_RemovedStaysOut ==
  \A k \in {<<"a">>, <<"b">>} :
    ( /\ RemovedLast(k)
      /\ \A r \in ReqIds : ~(req[r].op = "monitor" /\ toLowerCase(req[r].address) = k) )
    => k \notin Addresses(listMonitored)

\* C8: monitor, unmonitor and analyze of a string that is no address answer
\* invalid-address in their first step, having called neither the classifier
\* nor the indexer, and that step leaves the registry, the backup file, the
\* stored snapshot, the event log and the broadcast log as they were.
C8_InvalidAddress ==
  [][\A r \in ReqIds :
       ( /\ req[r].pc = "idle"
         /\ req'[r].op \in {"monitor", "unmonitor", "analyze"}
         /\ req'[r].address = <<"g">> )
       => /\ req'[r].pc = "done"
          /\ req'[r].status = "invalid"
          /\ req'[r].aiCalls = 0
          /\ req'[r].fetches = 0
          /\ UNCHANGED <<monitoredWallets, backupFile, ogWallets, ogEvents, broadcasts>>
    ]_vars

\* analyze("g") has answered invalid-address while an address is monitored
C8_Witness ==
  /\ \E r \in ReqIds :
       req[r].op = "analyze" /\ req[r].status = "invalid" /\ req[r].address = <<"g">>
  /\ Len(monitoredWallets) = 1

\* C9: a monitor of a valid address answers with success and the registry
\* holds the address; unless the file itself cannot be written, the backup
\* file holds it too, whatever the classifier and the durable store did.
C9_MonitorSurvivesOutage ==
  \A r \in ReqIds :
    (req[r].op = "monitor" /\ req[r].pc = "done" /\ isAddress(req[r].address)) =>
      /\ req[r].status = "ok"
      /\ toLowerCase(req[r].address) \in Addresses(listMonitored)
      /\ fsOk => /\ backupFile # <<>>
                 /\ toLowerCase(req[r].address) \in Addresses(backupFile[1])

\* monitor("a") has completed although the classifier threw and the durable
\* store took neither the event nor the snapshot: the address is in the
\* registry and in the backup file
C9_Witness ==
  /\ \E r \in ReqIds :
       Completed(r, "monitor") /\ req[r].address = <<"a">> /\ req[r].analysis = <<>>
  /\ ~ogOk /\ ogEvents = <<>> /\ ogWallets = <<>>
  /\ <<"a">> \in Addresses(listMonitored)
  /\ backupFile # <<>> /\ <<"a">> \in Addresses(backupFile[1])

\* C10: when a monitor or an unmonitor has completed with success and no
\* other handler is in flight, the backup file holds exactly the entities of
\* the live registry.
C10_BackupMatchesRegistry ==
  ( /\ \E r \in ReqIds : Completed(r, "monitor") \/ Completed(r, "unmonitor")
    /\ \A r \in ReqIds : req[r].pc \in {"idle", "done"} )
  => backupFile = <<listMonitored>>

\* the score the risk levels stand for
ScoreOfLevel(level) ==
  CASE level = "critical" -> 90
    [] level = "high" -> 75
    [] level = "medium" -> 50
    [] level = "low" -> 25
    [] OTHER -> 0

\* C11: every entity of the live registry has a riskLevel among low, medium,
\* high and critical, and its riskScore is the score of that level (90 for
\* critical, 75 for high, 50 for medium, 25 for low).
C11_RiskFieldsWellFormed ==
  \A i \in 1..Len(listMonitored) :
    /\ listMonitored[i].riskLevel \in {"low", "medium", "high", "critical"}
    /\ listMonitored[i].riskScore = ScoreOfLevel(listMonitored[i].riskLevel)

\* C12: a step of an analysis in flight leaves the registry as it is (so an
\* address that an unmonitor removed meanwhile is not put back), it takes the
\* analysis on towards its answer, and the answer is a success.
C12_AnalysisLeavesRegistry ==
  [][\A r \in ReqIds :
       ( /\ req[r].op = "analyze"
         /\ req[r].pc \in {"fetch", "ai", "stream"}
         /\ req'[r] # req[r] )
       => /\ monitoredWallets' = monitoredWallets
          /\ req'[r].op = "analyze"
          /\ req'[r].pc \in {"ai", "stream", "done"}
          /\ req'[r].pc = "done" => req'[r].status = "ok"
    ]_vars

\* an unmonitor of "a" was issued while an analysis of "a" held slot 1; it
\* removed the address and told the subscribers, and after that the analysis
\* told them of its unusual verdict and answered: "a" is not monitored
C12_Witness ==
  /\ Completed(1, "analyze") /\ req[1].address = <<"a">>
  /\ Completed(2, "unmonitor") /\ req[2].address = <<"a">>
  /\ Len(broadcasts) = 2
  /\ broadcasts[1].message.action = "removed"
  /\ broadcasts[2].message.type = "unusual_activity_detected"
  /\ listMonitored = <<>>

\* C13: when an analysis has answered and the classifier call had failed,
\* the verdict is the rule-based one of the activity summary that was handed
\* to the classifier, and the classifier was called once.
C13_FallbackOnAiFailure ==
  \A r \in ReqIds :
    (Completed(r, "analyze") /\ req[r].analysis[1].fallbackAnalysis) =>
      /\ req[r].analysis[1] = generateFallbackAnalysis(req[r].data[1])
      /\ req[r].aiCalls = 1

\* an analysis of an address that moved 150 ETH in 100 transactions has
\* answered with the rule-based verdict high, large_volume_spike, after one
\* failed classifier call
C13_Witness ==
  \E r \in ReqIds :
    /\ Completed(r, "analyze")
    /\ req[r].fetched = Some(IndexerPartial)
    /\ req[r].analysis[1].fallbackAnalysis
    /\ req[r].analysis[1].riskLevel = "high"
    /\ req[r].analysis[1].anomalies
         = <<"moderate_frequency_transactions", "large_volume_spike">>
    /\ req[r].aiCalls = 1

\* C14: an analysis of a valid address that is over has answered with a
\* result, the verdict and the availability flags, and not with an error,
\* whatever the indexer, the classifier, the durable store and the subscriber
\* did meanwhile.
C14_AnalyzeAlwaysAnswers ==
  \A r \in ReqIds :
    (req[r].op = "analyze" /\ req[r].pc = "done" /\ isAddress(req[r].address)) =>
      /\ req[r].status = "ok"
      /\ req[r].analysis # None
      /\ req[r].avail # None

\* an analysis has answered with its rule-based verdict and its flags after
\* the token transfers and the balance could not be fetched, the classifier
\* had failed, and the unusual verdict could not be sent to the subscriber,
\* whose socket was closed, while the durable store was failing
C14_Witness ==
  \E r \in ReqIds :
    /\ Completed(r, "analyze")
    /\ req[r].fetched[1].tokens = None /\ req[r].fetched[1].balance = None
    /\ req[r].analysis[1].fallbackAnalysis /\ req[r].analysis[1].isUnusual
    /\ req[r].avail # None
    /\ Len(broadcasts) = 1
    /\ broadcasts[1].message.type = "unusual_activity_detected"
    /\ ~broadcasts[1].sent
    /\ ~ogOk

\* C15: of two analyses that have answered, one whose fetch of a source
\* failed and one whose fetch of that source succeeded with zero records, the
\* availability flag of that source differs; so for the transactions, for the
\* token transfers and for the balance.
C15_FlagsTellFailureFromAbsence ==
  \A r1, r2 \in ReqIds :
    (Completed(r1, "analyze") /\ Completed(r2, "analyze")) =>
      LET f1 == req[r1].fetched[1]
          f2 == req[r2].fetched[1]
          a1 == req[r1].avail[1]
          a2 == req[r2].avail[1]
      IN /\ (f1.txs = None /\ f2.txs = Some(NoTxs))
              => a1.transactionsAvailable # a2.transactionsAvailable
         /\ (f1.tokens = None /\ f2.tokens = Some(NoTokens))
              => a1.tokenTransfersAvailable # a2.tokenTransfersAvailable
         /\ (f1.balance = None /\ f2.balance = Some(0))
              => a1.balanceAvailable # a2.balanceAvailable

\* generateFallbackAnalysis has been evaluated
Evaluated == fallback.walletData # None /\ fallback.verdict # None

\* C16: the rule-based verdict of more than 100 records in the day is high
\* and unusual with the anomaly high_frequency_transactions, whatever the
\* other metrics are; that of more than 50 and at most 100 has the anomaly
\* moderate_frequency_transactions and a riskLevel of medium or high.
C16_FrequencyRule ==
  Evaluated =>
    LET d == fallback.walletData[1]
        v == fallback.verdict[1]
    IN /\ d.dailyTxCount > 100 =>
            /\ v.riskLevel = "high"
            /\ v.isUnusual
            /\ "high_frequency_transactions" \in SeqElems(v.anomalies)
       /\ (d.dailyTxCount > 50 /\ d.dailyTxCount <= 100) =>
            /\ "moderate_frequency_transactions" \in SeqElems(v.anomalies)
            /\ v.riskLevel \in {"medium", "high"}

\* 150 records in the day and 5 ETH moved: high, unusual,
\* high_frequency_transactions and nothing else
C16_Witness ==
  /\ Evaluated
  /\ fallback.walletData[1].dailyTxCount = 150
  /\ fallback.walletData[1].dailyVolume = 50
  /\ fallback.verdict[1].riskLevel = "high"
  /\ fallback.verdict[1].isUnusual
  /\ fallback.verdict[1].anomalies = <<"high_frequency_transactions">>

\* C17: the rule-based verdict of a daily volume above 100 ETH is high and
\* unusual with the anomaly large_volume_spike, whatever the other metrics
\* are; that of a volume above 10 and at most 100 ETH has the anomaly
\* elevated_volume and a riskLevel of medium or high.
C17_VolumeRule ==
  Evaluated =>
    LET d == fallback.walletData[1]
        v == fallback.verdict[1]
    IN /\ d.dailyVolume > 100 * WeiPerEth =>
            /\ v.riskLevel = "high"
            /\ v.isUnusual
            /\ "large_volume_spike" \in SeqElems(v.anomalies)
       /\ (d.dailyVolume > 10 * WeiPerEth /\ d.dailyVolume <= 100 * WeiPerEth) =>
            /\ "elevated_volume" \in SeqElems(v.anomalies)
            /\ v.riskLevel \in {"medium", "high"}

\* 5 records in the day and 150 ETH moved: high, unusual, large_volume_spike
\* and nothing else
C17_Witness ==
  /\ Evaluated
  /\ fallback.walletData[1].dailyTxCount = 5
  /\ fallback.walletData[1].dailyVolume = 1500
  /\ fallback.verdict[1].riskLevel = "high"
  /\ fallback.verdict[1].isUnusual
  /\ fallback.verdict[1].anomalies = <<"large_volume_spike">>

\* C18: with at most 50 records in the day, at most 10 ETH moved, failed
\* transactions at most 30% of the records and at most 20 token transfers,
\* the rule-based verdict is low, not unusual and without anomalies; and a
\* rule-based verdict that is low has no anomalies.
C18_QuietIsLow ==
  Evaluated =>
    LET d == fallback.walletData[1]
        v == fallback.verdict[1]
    IN /\ ( /\ d.dailyTxCount <= 50
            /\ d.dailyVolume <= 10 * WeiPerEth
            /\ 10 * d.failedTxCount <= 3 * d.dailyTxCount
            /\ d.tokenTransfers <= 20 )
          => (v.riskLevel = "low" /\ ~v.isUnusual /\ v.anomalies = <<>>)
       /\ v.riskLevel = "low" => v.anomalies = <<>>

\* every metric sits on its threshold (50 records, 10 ETH, 15 failed, 20
\* token transfers): low, not unusual, no anomalies
C18_Witness ==
  /\ Evaluated
  /\ fallback.walletData[1].dailyTxCount = 50
  /\ fallback.walletData[1].dailyVolume = 100
  /\ fallback.walletData[1].failedTxCount = 15
  /\ fallback.walletData[1].tokenTransfers = 20
  /\ fallback.verdict[1].riskLevel = "low"
  /\ ~fallback.verdict[1].isUnusual
  /\ fallback.verdict[1].anomalies = <<>>

\* C19: when an analysis has answered with the rule-based verdict and the
\* indexer had answered more than 20 token transfers of the last 24 hours,
\* the verdict has the anomaly high_token_activity and a riskLevel of medium
\* or above.
C19_TokenActivityFlagged ==
  \A r \in ReqIds :
    ( /\ Completed(r, "analyze")
      /\ req[r].analysis[1].fallbackAnalysis
      /\ req[r].fetched[1].tokens # None
      /\ req[r].fetched[1].tokens[1].recent > 20 )
    => /\ "high_token_activity" \in SeqElems(req[r].analysis[1].anomalies)
       /\ req[r].analysis[1].riskLevel \in {"medium", "high", "critical"}

\* C20: a rule-based verdict is unusual exactly when its riskLevel is high,
\* and its riskLevel is never critical.
C20_UnusualIffHigh ==
  Evaluated =>
    LET v == fallback.verdict[1]
    IN /\ v.riskLevel = "high" => v.isUnusual
       /\ v.isUnusual => v.riskLevel = "high"
       /\ v.riskLevel # "critical"

\* 21 token transfers and 16 failed transactions among 50 records: two
\* anomalies, medium, not unusual
C20_Witness ==
  /\ Evaluated
  /\ fallback.walletData[1].tokenTransfers = 21
  /\ fallback.walletData[1].failedTxCount = 16
  /\ fallback.walletData[1].dailyTxCount = 50
  /\ fallback.verdict[1].anomalies = <<"high_failure_rate", "high_token_activity">>
  /\ fallback.verdict[1].riskLevel = "medium"
  /\ ~fallback.verdict[1].isUnusual

\* the order low < medium < high
Rank(level) ==
  CASE level = "low" -> 1
    [] level = "medium" -> 2
    [] level = "high" -> 3
    [] OTHER -> 0

\* q is an initial part of p
IsPrefix(q, p) == Len(q) <= Len(p) /\ \A i \in 1..Len(q) : q[i] = p[i]

\* the ranks the rules ask for on walletData d, one per rule that fires
\* (frequency, volume, failures, token activity), by the thresholds
Demands(d) ==
  << IF d.dailyTxCount > 100 THEN 3 ELSE IF d.dailyTxCount > 50 THEN 2 ELSE 0,
     IF d.dailyVolume > 100 * WeiPerEth THEN 3
     ELSE IF d.dailyVolume > 10 * WeiPerEth THEN 2 ELSE 0,
     IF 10 * d.failedTxCount > 3 * d.dailyTxCount THEN 2 ELSE 0,
     IF d.tokenTransfers > 20 THEN 2 ELSE 0 >>

\* C21: as the rules of one evaluation are applied in their order the risk
\* level never goes down and the anomalies gathered so far stay, in place;
\* the verdict's riskLevel is the highest level a fired rule asks for (low
\* when none fired) and its anomaly list has one entry per fired rule.
C21_LevelsOnlyRise ==
  Evaluated =>
    LET d == fallback.walletData[1]
        v == fallback.verdict[1]
        s1 == FrequencyRule(d)
        s2 == VolumeRule(s1, d)
        s3 == FailureRule(s2, d)
        s4 == TokenRule(s3, d)
        s5 == HighIsUnusual(s4)
        steps == <<s1, s2, s3, s4, s5>>
        fired == {i \in 1..4 : Demands(d)[i] > 0}
        top == IF fired = {} THEN 1
               ELSE CHOOSE m \in {Demands(d)[i] : i \in fired} :
                      \A i \in fired : Demands(d)[i] <= m
    IN /\ \A i \in 1..4 :
            /\ Rank(steps[i].riskLevel) <= Rank(steps[i + 1].riskLevel)
            /\ IsPrefix(steps[i].anomalies, steps[i + 1].anomalies)
       /\ Rank(s1.riskLevel) >= 1
       /\ v.riskLevel = s5.riskLevel /\ v.anomalies = s5.anomalies
       /\ Rank(v.riskLevel) = top
       /\ Len(v.anomalies) = Cardinality(fired)

\* 51 records in the day, 150 ETH moved, 16 failed, 21 token transfers:
\* medium after the first rule, high from the second on, and the four
\* anomalies in the order of the rules
C21_Witness ==
  /\ Evaluated
  /\ fallback.walletData[1].dailyTxCount = 51
  /\ fallback.walletData[1].dailyVolume = 1500
  /\ fallback.walletData[1].failedTxCount = 16
  /\ fallback.walletData[1].tokenTransfers = 21
  /\ fallback.verdict[1].riskLevel = "high"
  /\ fallback.verdict[1].anomalies
       = <<"moderate_frequency_transactions", "large_volume_spike",
           "high_failure_rate", "high_token_activity">>

\* the conditions that hold among: more than 100 transactions in all, a
\* record in the day, a token transfer
Satisfied(d) ==
  (IF d.totalTransactions > 100 THEN 1 ELSE 0)
    + (IF d.dailyTxCount > 0 THEN 1 ELSE 0)
    + (IF d.tokenTransfers > 0 THEN 1 ELSE 0)

\* C22: the confidence of a rule-based verdict is 0.6, 0.7, 0.8 or 0.9
\* according to whether none, one, two or three of the conditions hold, and
\* it is at most 0.9.
C22_ConfidenceInTenths ==
  Evaluated =>
    LET n == Satisfied(fallback.walletData[1])
        c == fallback.verdict[1].confidence
    IN /\ c = <<Double06, Double07, Double08, Double09>>[n + 1]
       /\ ~DoubleLess(Double09, c)

\* C23: the requests to the indexer go out one at a time: at no moment is
\* more than one of them awaiting its answer, the four of
\* getAggregatedWalletActivity included.
C23_OneRequestInFlight == Cardinality(InFlight) <= 1

\* C24: a fetcher that has sent its request returns in the end, also when
\* the indexer never answers, and so does getAggregatedWalletActivity.
C24_FetchReturns ==
  /\ \A k \in Kinds : (calls[k].pc = "fetch") ~> (calls[k].pc = "done")
  /\ (agg.pc = "gather") ~> (agg.pc = "done")

\* the indexer did not deliver: the request was refused, or the answer
\* carries the status 0
UpstreamFailed(data) == data.tag = "refused" \/ data.status = "0"

\* C25: a fetcher of any kind that has returned did not raise, and it
\* returned the empty sequence when the indexer refused the request or
\* reported an error status.
C25_FetchersReturnEmpty ==
  \A k \in Kinds :
    calls[k].pc = "done" =>
      /\ ~calls[k].out.raised
      /\ UpstreamFailed(calls[k].data) => calls[k].out.records = <<>>

\* a refused request and an error status have both ended in an empty
\* sequence, next to a fetcher that returned its records
C25_Witness ==
  /\ calls["transaction"].pc = "done"
  /\ calls["transaction"].data.tag = "refused"
  /\ calls["transaction"].out = Returned(<<>>)
  /\ calls["token_contract"].pc = "done"
  /\ calls["token_contract"].data.message = "NOTOK"
  /\ calls["token_contract"].out = Returned(<<>>)
  /\ calls["nft_transfer"].pc = "done"
  /\ calls["nft_transfer"].out.records = <<[type |-> "nft_transfer", timestamp |-> 9000]>>

Occurrences(x, arr) == Cardinality({i \in DOMAIN arr : arr[i] = x})

\* C26: getAggregatedWalletActivity(address, limit) returns, of the records
\* its four fetchers returned, the min(limit, total) newest ones, newest
\* first; a kind whose fetch failed adds nothing and the other three are
\* there all the same.
C26_AggregateNewestFirst ==
  agg.pc = "done" =>
    LET all == Spread(WalletKinds)
        result == agg.result
    IN /\ Len(result) = (IF agg.limit < Len(all) THEN agg.limit ELSE Len(all))
       /\ \A i \in 1..Len(result) - 1 : result[i].timestamp >= result[i + 1].timestamp
       /\ \A i \in DOMAIN result : Occurrences(result[i], result) <= Occurrences(result[i], all)
       /\ \A j \in DOMAIN all :
            Occurrences(all[j], result) < Occurrences(all[j], all) =>
              \A i \in DOMAIN result : all[j].timestamp <= result[i].timestamp
       /\ \A i \in 1..Len(WalletKinds) :
            UpstreamFailed(calls[WalletKinds[i]].data) =>
              calls[WalletKinds[i]].out.records = <<>>

\* the internal transactions failed, the other three kinds hold five records
\* and the three newest are returned for limit 3
C26_Witness ==
  /\ agg.pc = "done"
  /\ agg.limit = 3
  /\ calls["internal_transaction"].data.message = "NOTOK"
  /\ Len(Spread(WalletKinds)) = 5
  /\ agg.result = <<[type |-> "nft_transfer", timestamp |-> 9000],
                     [type |-> "transaction", timestamp |-> 7000],
                     [type |-> "token_transfer", timestamp |-> 6000]>>

\* the monitored items the feed request is about: all of them, or those of
\* the chain it names
Matching ==
  {i \in DOMAIN monitoredWallets :
     feed.chainId = None \/ monitoredWallets[i].value.chainId = feed.chainId[1]}

\* what the fetchers of the items returned, item after item
Merged == Flat([i \in DOMAIN feed.parts |-> feed.parts[i][1]])

\* C27: the activity feed for limit L answers with at most L records,
\* newest first, taken from what the fetchers of the items returned, the
\* newest of them; an item whose fetch failed takes nothing away from the
\* others; with no monitored item, or none of the chain asked for, the
\* answer is the empty list and no fetcher is called.
C27_FeedNewestFirst ==
  feed.pc = "done" =>
    LET activities == feed.response[1].activities
    IN /\ feed.response[1].status = 200
       /\ Len(activities) <= feed.limit
       /\ \A i \in 1..Len(activities) - 1 :
            activities[i].timestamp >= activities[i + 1].timestamp
       /\ Len(activities) = (IF feed.limit < Len(Merged) THEN feed.limit ELSE Len(Merged))
       /\ \A i \in DOMAIN activities :
            Occurrences(activities[i], activities) <= Occurrences(activities[i], Merged)
       /\ \A j \in DOMAIN Merged :
            Occurrences(Merged[j], activities) < Occurrences(Merged[j], Merged) =>
              \A i \in DOMAIN activities : Merged[j].timestamp <= activities[i].timestamp
       /\ Matching = {} => activities = <<>> /\ feed.fetched = 0

\* three items, the fetch of the token fails, and the sixteen records of
\* the wallet and the contract are all in the answer, interleaved
C27_Witness ==
  /\ feed.pc = "done"
  /\ feed.limit = LargeLimit
  /\ Len(feed.items) = 3
  /\ feed.parts[2] = Some(<<>>)
  /\ Len(feed.response[1].activities) = 16
  /\ feed.response[1].activities[1].monitoredItem = <<"c">>
  /\ feed.response[1].activities[2].monitoredItem = <<"a">>

\* the records of the answer that stem from the item
Contribution(item) ==
  Cardinality({i \in DOMAIN feed.response[1].activities :
                 feed.response[1].activities[i].monitoredItem = item.address})

\* C28: in the answer to a feed request for limit L over N items, no item
\* has more than floor(L / N) + 5 records, a token no more than
\* floor(L / N) + 10, however many records the indexer returns.
C28_PerItemCap ==
  feed.pc = "done" =>
    \A i \in DOMAIN feed.items :
      Contribution(feed.items[i])
        <= (feed.limit \div Len(feed.items))
             + (IF feed.items[i].type = "token" THEN 10 ELSE 5)

\* C29: a call of broadcastToClients hands the message to every subscriber
\* that is open and reachable, also when another subscriber is closed, slow
\* or fails on send, leaves the closed one alone, and returns normally.
C29_BroadcastReachesTheOthers ==
  [][bcast'.calls = bcast.calls + 1 =>
       /\ bcast'.raised = bcast.raised
       /\ \A i \in DOMAIN clients :
            /\ i \in DOMAIN clients'
            /\ clients'[i].id = clients[i].id
            /\ clients'[i].accepted =
                 IF clients[i].readyState = OPEN /\ clients[i].health # "broken"
                 THEN Append(clients[i].accepted, Stringify(bcast.calls + 1))
                 ELSE clients[i].accepted]_vars

\* a closed socket and a broken one stand before a well one in the set, and
\* the well one has the message of the broadcast, as has a slow one
C29_Witness ==
  /\ bcast = [calls |-> 1, raised |-> 0]
  /\ Len(clients) = 3
  /\ clients[1].readyState = CLOSED
  /\ clients[1].accepted = <<Stringify(Welcome)>>
  /\ clients[2].health = "broken"
  /\ clients[2].errorPending
  /\ clients[3].readyState = OPEN
  /\ clients[3].health \in {"well", "slow"}
  /\ clients[3].accepted = <<Stringify(Welcome), Stringify(1)>>

\* the log of broadcasts has grown by one message of the type about the
\* address
Pushed(type, address) ==
  /\ Len(broadcasts') = Len(broadcasts) + 1
  /\ broadcasts'[Len(broadcasts')].message.type = type
  /\ broadcasts'[Len(broadcasts')].message.walletAddress = address

\* C30: when the append to the durable event log fails, the publisher goes
\* on and the event is pushed to the subscribers all the same: the monitor
\* and unmonitor handlers answer with success and broadcast the registry
\* update, the analyze handler answers and broadcasts the unusual activity,
\* and the scheduled cycle broadcasts it and goes on to the next wallet.
C30_PushedDespiteStoreFailure ==
  [][~ogOk =>
       /\ \A r \in ReqIds :
            /\ (req[r].pc = "event" /\ req'[r].pc # "event") =>
                 /\ req'[r].pc = "done" /\ req'[r].status = "ok"
                 /\ Pushed("wallet_monitoring_update", toLowerCase(req[r].address))
            /\ (req[r].pc = "stream" /\ req'[r].pc # "stream") =>
                 /\ req'[r].pc = "done" /\ req'[r].status = "ok"
                 /\ Pushed("unusual_activity_detected", req[r].address)
       /\ (cycle.pc = "stream" /\ cycle'.pc # "stream") =>
            Pushed("unusual_wallet_activity", cycle.address)]_vars

\* the part of C30 on the handlers of monitor, unmonitor and analyze
C30_HandlersPush ==
  [][~ogOk =>
       \A r \in ReqIds :
         /\ (req[r].pc = "event" /\ req'[r].pc # "event") =>
              /\ req'[r].pc = "done" /\ req'[r].status = "ok"
              /\ Pushed("wallet_monitoring_update", toLowerCase(req[r].address))
         /\ (req[r].pc = "stream" /\ req'[r].pc # "stream") =>
              /\ req'[r].pc = "done" /\ req'[r].status = "ok"
              /\ Pushed("unusual_activity_detected", req[r].address)]_vars

\* C31: an analysis emits a risk event exactly when its verdict is unusual,
\* and then one append to the stream and one push.  When the verdict
\* arrives, an unusual one calls the stream once and any other calls
\* nothing; when the call of the stream has settled, the subscribers are
\* pushed one message about the address and the stream is not called again.
C31_OneRiskEventPerUnusual ==
  [][/\ \A r \in ReqIds :
          /\ (req[r].op = "analyze" /\ req[r].pc = "ai" /\ req'[r].pc # "ai") =>
               /\ broadcasts' = broadcasts
               /\ IF req'[r].analysis[1].isUnusual
                  THEN req'[r].pc = "stream" /\ streams' = Append(streams, req[r].address)
                  ELSE req'[r].pc = "done" /\ streams' = streams
          /\ (req[r].pc = "stream" /\ req'[r].pc # "stream") =>
               /\ streams' = streams
               /\ Pushed("unusual_activity_detected", req[r].address)
     /\ (cycle.pc = "ai" /\ cycle' # cycle /\ tmWallets' = tmWallets) =>
          /\ broadcasts' = broadcasts
          /\ streams' = IF cycle'.pc = "stream" THEN Append(streams, cycle.address)
                        ELSE streams
     /\ (cycle.pc = "stream" /\ cycle'.pc # "stream") =>
          /\ streams' = streams
          /\ Pushed("unusual_wallet_activity", cycle.address)]_vars

\* the number of the broadcast that published the text (0 for the welcome)
PublishedAs(messageStr) == messageStr[2]

\* C32: of two events published one after the other, a subscriber that gets
\* both gets them in that order: what a socket took is in the order of the
\* broadcasts.
C32_PublishOrderKept ==
  \A c \in DOMAIN clients :
    \A i, j \in DOMAIN clients[c].accepted :
      i < j => PublishedAs(clients[c].accepted[i]) < PublishedAs(clients[c].accepted[j])

\* a subscriber has both broadcasts, the first before the second, beside
\* one that connected between them and has the second only
C32_Witness ==
  /\ bcast.calls = 2
  /\ \E c, d \in DOMAIN clients :
       /\ clients[c].accepted = <<Stringify(Welcome), Stringify(1), Stringify(2)>>
       /\ clients[d].accepted = <<Stringify(Welcome), Stringify(2)>>

\* C33: whatever startMonitoring and stopMonitoring calls are made, at most
\* one schedule of the wallet analysis and one of the block processing are
\* registered, so that a tick starts one cycle at most; a startMonitoring
\* while monitoring is active registers nothing.
C33_OneScheduleOfEach ==
  [][/\ schedules' <= 1
     /\ isMonitoring => schedules' = schedules]_vars

\* C34: getWalletBalance returns null when the lookup at the indexer fails
\* and a balance object with the value zero spelled out when the indexer
\* reports a balance of zero, so that the caller tells the two apart: the
\* balance route answers the first with 500 and the second with 200 and the
\* object.
C34_NullIsNotZero ==
  \A b \in ReqIds :
    (bal[b].pc = "done" /\ bal[b].data # None) =>
      LET data == bal[b].data[1]
          response == bal[b].response[1]
      IN /\ UpstreamFailed(data) => response.status = 500 /\ response.body = None
         /\ ~UpstreamFailed(data) =>
              /\ response.status = 200
              /\ response.body # None
              /\ response.body[1].address = bal[b].address
              /\ response.body[1].balance = data.items
              /\ data.items = WeiString(<<0>>, 0) => response.body[1].balanceEth = 0

\* one request was answered with null after an error status while another
\* got the object of a zero balance
C34_Witness ==
  /\ bal[1].pc = "done"
  /\ bal[1].data = Some(Json("0", "NOTOK", FALSE, <<>>))
  /\ bal[1].response = Some([status |-> 500, body |-> None])
  /\ bal[2].pc = "done"
  /\ bal[2].response =
       Some([status |-> 200,
             body |-> Some([address |-> <<"A">>, balance |-> WeiString(<<0>>, 0),
                            balanceEth |-> 0])])

\* C35: the rule-based verdict has high_failure_rate exactly when the failed
\* transactions among the recent transactions given are more than 30% of
\* dailyTxCount, and high_token_activity exactly when more than 20 token
\* transfers are given; when either is added a level that was low after the
\* frequency and volume checks is medium, and a level that was medium or
\* high is what it was.
C35_FailureAndTokenRules ==
  Evaluated =>
    LET d == fallback.walletData[1]
        v == fallback.verdict[1]
        before == VolumeRule(FrequencyRule(d), d)
        failures == 10 * d.failedTxCount > 3 * d.dailyTxCount
        tokens == d.tokenTransfers > 20
    IN /\ ("high_failure_rate" \in SeqElems(v.anomalies)) = failures
       /\ ("high_token_activity" \in SeqElems(v.anomalies)) = tokens
       /\ v.anomalies = before.anomalies
                          \o (IF failures THEN <<"high_failure_rate">> ELSE <<>>)
                          \o (IF tokens THEN <<"high_token_activity">> ELSE <<>>)
       /\ v.riskLevel = IF (failures \/ tokens) /\ before.riskLevel = "low"
                        THEN "medium" ELSE before.riskLevel

\* more than 100 ETH moved and 16 failed transactions among 50 records: the
\* failure anomaly is added and the level stays high
C35_Witness ==
  /\ Evaluated
  /\ fallback.walletData[1].dailyVolume = 1001
  /\ fallback.walletData[1].dailyTxCount = 50
  /\ fallback.walletData[1].failedTxCount = 16
  /\ fallback.walletData[1].tokenTransfers = 0
  /\ fallback.verdict[1].anomalies = <<"large_volume_spike", "high_failure_rate">>
  /\ fallback.verdict[1].riskLevel = "high"

\* C36: the average amount of the walletData an analysis has prepared is a
\* number: the 24h volume divided by the number of transactions of the last
\* 24 hours when there are any, and 0 when there are none, token transfers
\* in the window or not.
C36_AverageIsANumber ==
  \A r \in ReqIds :
    (req[r].op = "analyze" /\ req[r].data # None) =>
      LET txs == getWalletTransactions(req[r].fetched[1])
          avg == req[r].data[1].avgAmount
      IN /\ avg.number = "finite"
         /\ txs.recent > 0 => (avg.num = txs.volume /\ avg.den = txs.recent)
         /\ txs.recent = 0 => avg.num = 0

\* a monitor request that has put its entity into the registry and has not
\* answered yet, the entity being the registry's entry for its address
EntityInPlace(q) ==
  /\ req[q].op = "monitor"
  /\ req[q].pc \notin {"idle", "ai", "done"}
  /\ MapHas(monitoredWallets, MonitorKey(req[q].address))
  /\ MapGet(monitoredWallets, MonitorKey(req[q].address))
       = MakeItem(req[q].address, req[q].analysis)

\* C37: a step of loadWalletsFrom0G (the cold-start load or a reload) leaves
\* the entity a monitor request has put into the registry what it is.
C37_LoadKeepsMonitored ==
  [][\A r, q \in ReqIds :
       ( /\ req[r].op \in {"coldload", "reload"}
         /\ req[r].pc \in {"retrieve", "readFile"}
         /\ req'[r].pc # req[r].pc
         /\ EntityInPlace(q) )
       => /\ MapHas(monitoredWallets', MonitorKey(req[q].address))
          /\ MapGet(monitoredWallets', MonitorKey(req[q].address))
               = MapGet(monitoredWallets, MonitorKey(req[q].address))]_vars

\* the wallet_monitoring_update messages broadcast for the address, in the
\* order of their broadcast
UpdatesFor(address) ==
  SelectSeq(broadcasts,
            LAMBDA b : /\ b.message.type = "wallet_monitoring_update"
                       /\ b.message.walletAddress = address)

\* C38: when no monitor or unmonitor request is under way, the last
\* wallet_monitoring_update broadcast for the address says added exactly
\* when the address is in the registry, the requests having overlapped or
\* not.
C38_LastBroadcastAgrees ==
  LET updates == UpdatesFor(<<"a">>)
  IN ( /\ \A r \in ReqIds : req[r].pc \in {"idle", "done"}
       /\ updates # <<>> )
     => ( (updates[Len(updates)].message.action = "added")
            <=> MapHas(monitoredWallets, <<"a">>) )

\* C39: lastProcessedBlock never goes down, processNewBlocks invocations
\* overlapping or not; an invocation that ends having observed a block
\* number not above lastProcessedBlock leaves it what it is, one that ends
\* on a failed lookup leaves it what it is, and one that observed a higher
\* number sets it to that number.
C39_LastProcessedBlockNeverDecreases ==
  [][ /\ lastProcessedBlock' >= lastProcessedBlock
      /\ \A i \in RunIds :
           (blockRuns[i].pc \notin {"idle", "done"} /\ blockRuns'[i].pc = "done") =>
             IF head = None
             THEN lastProcessedBlock' = lastProcessedBlock
             ELSE LET observed == blockRuns[i].blockNumber[1]
                  IN /\ observed <= lastProcessedBlock
                          => lastProcessedBlock' = lastProcessedBlock
                     /\ observed > lastProcessedBlock
                          => lastProcessedBlock' = observed ]_vars

\* an invocation that observed block 1 has ended with block 2 processed by
\* another in the meantime, and one has ended on a failed lookup
C39_Witness ==
  /\ lastProcessedBlock = 2
  /\ blockRuns[1].pc = "done" /\ blockRuns[1].blockNumber = Some(1)
  /\ blockRuns[1].outcome = "no new blocks"
  /\ blockRuns[2].pc = "done" /\ blockRuns[2].outcome = "failed"

====
